--------------------------- MODULE Skipping_proofs ---------------------------
(***************************************************************************)
(* Proofs about Skipping: wherever the cursor is and whatever the text is, *)
(* it goes on in the text, and a checked call leaves it there; the class   *)
(* or array that a text begins with is skipped as a whole; and white space,*)
(* comments and strings are passed as far as what is looked for.           *)
(*                                                                         *)
(* The searches are recursive: each is shown to stay in a set of positions *)
(* that one of its turns does not leave, from which follow the bounds of   *)
(* what it finds. The invariant bounds the cursor and the counters.        *)
(*                                                                         *)
(* What a text contains is defined by recursion too; of that only the step *)
(* from one character to the next is used. In a text with an item the      *)
(* cursor stands where something begins, and the counters are the numbers  *)
(* of brackets of each kind that are open in front of it. A string or      *)
(* comment is given by where it ends, and every search is shown to come to *)
(* that place: the invariant of each loop is a set of places, or of states,*)
(* in front of it. That the sums by which a block's escapes are computed   *)
(* are those of its bits is EscapedIs.                                     *)
(***************************************************************************)
EXTENDS Skipping, Positions

-----------------------------------------------------------------------------
(* The searches for the end of a string.                                   *)

(* Behind a character of a string, or behind an escape.                    *)
Step(t, p) == p + (IF At(t, p) = "\\" THEN 2 ELSE 1)

(***************************************************************************)
(* A search that does not stop is in the text or at its terminator, and    *)
(* not at a quote.                                                         *)
(***************************************************************************)
LEMMA StopsAtLast ==
  ASSUME NEW t, NEW last, NEW b, NEW p \in Nat, Len(t) \in Nat, ~ Stops(t, last, b, p)
  PROVE  p <= Len(t) + 1 /\ (b = "range" => ~ (p >= last)) /\ (b = "zero" => At(t, p) # NUL) /\ At(t, p) # "\""
<1>1. ~ (p > Len(t) + 1) /\ (b = "range" => ~ (p >= last)) /\ (b = "zero" => At(t, p) # NUL) /\ At(t, p) # "\""
  BY Zenon DEF Stops, Exhausted
<1>2. p <= Len(t) + 1
  <2>1. ~ (p > Len(t) + 1)
    BY <1>1, Zenon
  <2> QED
    BY <2>1
<1> QED
  BY <1>1, <1>2, Zenon

(***************************************************************************)
(* The search for the closing quote, if it starts in a set that it does    *)
(* not leave before it stops, stops in that set. The set says what is      *)
(* passed.                                                                 *)
(***************************************************************************)
LEMMA EndFinds ==
  ASSUME NEW t, Len(t) \in Nat, NEW last, NEW b, NEW P \in SUBSET (1 .. (Len(t) + 3)),
         \A p \in P : ~ Stops(t, last, b, p) => Step(t, p) \in P,
         NEW a \in P
  PROVE  End(t, last, b)[a] \in P /\ Stops(t, last, b, End(t, last, b)[a])
<1> DEFINE n == Len(t) + 3
           S == 1 .. (Len(t) + 3)
           rank == [p \in S |-> n - p]
           stop == [p \in S |-> Stops(t, last, b, p)]
           base == [p \in S |-> p]
           next == [p \in S |-> Step(t, p)]
           f == End(t, last, b)
<1>1. Descends(n, S, rank, stop, next)
  <2>1. n \in Nat /\ rank \in [S -> 0 .. n]
    OBVIOUS
  <2>2. stop \in [S -> BOOLEAN]
    BY DEF Stops, Exhausted
  <2>3. ASSUME NEW p \in S, ~ stop[p]
        PROVE  next[p] \in S /\ rank[next[p]] < rank[p]
    <3>1. ~ Stops(t, last, b, p)
      BY <2>3, Zenon
    <3>2. p <= Len(t) + 1
      <4>1. p \in Nat
        OBVIOUS
      <4> QED
        BY <3>1, <4>1, StopsAtLast, Zenon
    <3>3. Step(t, p) \in S /\ Step(t, p) > p
      BY <3>2 DEF Step
    <3> QED
      BY <3>3
  <2> HIDE DEF n, S, rank, stop, next
  <2> QED
    BY <2>1, <2>2, <2>3 DEF Descends
<1>2. Recurses(f, S, stop, base, next)
  <2>1. \E g : Recurses(g, S, stop, base, next)
    <3> HIDE DEF n, S, rank, stop, base, next
    <3> QED
      BY <1>1, TailRecursion
  <2>2. \E g : g = [p \in S |-> IF Stops(t, last, b, p) THEN p ELSE g[p + (IF At(t, p) = "\\" THEN 2 ELSE 1)]]
    BY <2>1, Zenon DEF Recurses, Step
  <2> HIDE DEF S
  <2>3. f = [p \in S |-> IF Stops(t, last, b, p) THEN p ELSE f[p + (IF At(t, p) = "\\" THEN 2 ELSE 1)]]
    BY <2>2, Zenon DEF End, S
  <2> HIDE DEF f
  <2> QED
    BY <2>3, Zenon DEF Recurses, Step
<1>3. KeptUntil(P, stop, next)
  BY DEF KeptUntil
<1>4. StopsIn(P, stop, base, f, a)
  <2>1. P \subseteq S /\ a \in P
    OBVIOUS
  <2> HIDE DEF n, S, rank, stop, base, next, f
  <2> QED
    BY <1>1, <1>2, <1>3, <2>1, TailResult
<1> QED
  BY <1>4 DEF StopsIn

(***************************************************************************)
(* The search for the first escape, likewise, finds a backslash in the set *)
(* or stops.                                                               *)
(***************************************************************************)
LEMMA FirstEscapeFinds ==
  ASSUME NEW t, Len(t) \in Nat, NEW last, NEW b, NEW P \in SUBSET (1 .. (Len(t) + 3)),
         \A p \in P : ~ Stops(t, last, b, p) /\ At(t, p) # "\\" => p + 1 \in P,
         NEW a \in P
  PROVE  \/ FirstEscape(t, last, b)[a] = 0 /\ \E x \in P : Stops(t, last, b, x)
         \/ /\ FirstEscape(t, last, b)[a] \in P
            /\ At(t, FirstEscape(t, last, b)[a]) = "\\" /\ ~ Stops(t, last, b, FirstEscape(t, last, b)[a])
<1> DEFINE n == Len(t) + 3
           S == 1 .. (Len(t) + 3)
           rank == [p \in S |-> n - p]
           stop == [p \in S |-> Stops(t, last, b, p) \/ At(t, p) = "\\"]
           base == [p \in S |-> IF Stops(t, last, b, p) THEN 0 ELSE p]
           next == [p \in S |-> p + 1]
           f == FirstEscape(t, last, b)
<1>1. Descends(n, S, rank, stop, next)
  <2>1. n \in Nat /\ rank \in [S -> 0 .. n]
    OBVIOUS
  <2>2. stop \in [S -> BOOLEAN]
    BY DEF Stops, Exhausted
  <2>3. ASSUME NEW p \in S, ~ stop[p]
        PROVE  next[p] \in S /\ rank[next[p]] < rank[p]
    <3>1. ~ Stops(t, last, b, p)
      BY <2>3, Zenon
    <3>2. p <= Len(t) + 1
      <4>1. p \in Nat
        OBVIOUS
      <4> QED
        BY <3>1, <4>1, StopsAtLast, Zenon
    <3>3. p + 1 \in S /\ p + 1 > p
      BY <3>2
    <3> QED
      BY <3>3
  <2> HIDE DEF n, S, rank, stop, next
  <2> QED
    BY <2>1, <2>2, <2>3 DEF Descends
<1>2. Recurses(f, S, stop, base, next)
  <2>1. PICK g : Recurses(g, S, stop, base, next)
    <3> HIDE DEF n, S, rank, stop, base, next
    <3> QED
      BY <1>1, TailRecursion
  <2>2. \A p \in S : g[p] = IF Stops(t, last, b, p) THEN 0 ELSE IF At(t, p) = "\\" THEN p ELSE g[p + 1]
    BY <2>1, Zenon DEF Recurses
  <2>3. g = [p \in S |-> IF Stops(t, last, b, p) THEN 0 ELSE IF At(t, p) = "\\" THEN p ELSE g[p + 1]]
    BY <2>1, <2>2, Zenon DEF Recurses
  <2> HIDE DEF S
  <2>4. f = [p \in S |-> IF Stops(t, last, b, p) THEN 0 ELSE IF At(t, p) = "\\" THEN p ELSE f[p + 1]]
    BY <2>3, Zenon DEF FirstEscape, S
  <2> HIDE DEF f
  <2>5. f = [p \in S |-> f[p]]
    BY <2>4, Zenon
  <2>6. \A p \in S : f[p] = IF stop[p] THEN base[p] ELSE f[next[p]]
    BY <2>4, Zenon
  <2> QED
    BY <2>5, <2>6, Zenon DEF Recurses
<1>3. KeptUntil(P, stop, next)
  BY DEF KeptUntil
<1>4. StopsIn(P, stop, base, f, a)
  <2>1. P \subseteq S /\ a \in P
    OBVIOUS
  <2> HIDE DEF n, S, rank, stop, base, next, f
  <2> QED
    BY <1>1, <1>2, <1>3, <2>1, TailResult
<1> QED
  BY <1>4 DEF StopsIn

(* Characters of a string without a quote or a backslash.                  *)
Plain(t, p, size) == \A i \in 0 .. (size - 1) : t[p + i] \notin {"\"", "\\"}

(***************************************************************************)
(* Passing whole words, likewise, ends in the set.                         *)
(***************************************************************************)
LEMMA SkipWordsStays ==
  ASSUME NEW t, Len(t) \in Nat, NEW size \in Nat \ {0}, NEW last, last = Len(t) + 1,
         NEW P \in SUBSET (1 .. (Len(t) + 1)),
         \A p \in P : last - p >= 2 * size /\ Plain(t, p, size) => p + size \in P,
         NEW a \in P
  PROVE  SkipWords(t, last, size)[a] \in P
<1> DEFINE n == Len(t) + 1
           S == 1 .. (Len(t) + 1)
           rank == [p \in S |-> n - p]
           passes(p) == last - p >= 2 * size /\ Plain(t, p, size)
           stop == [p \in S |-> ~ passes(p)]
           base == [p \in S |-> p]
           next == [p \in S |-> p + size]
           f == SkipWords(t, last, size)
<1>1. Descends(n, S, rank, stop, next)
  <2>1. n \in Nat /\ rank \in [S -> 0 .. n]
    OBVIOUS
  <2>2. stop \in [S -> BOOLEAN]
    OBVIOUS
  <2>3. ASSUME NEW p \in S, ~ stop[p]
        PROVE  next[p] \in S /\ rank[next[p]] < rank[p]
    <3>1. last - p >= 2 * size
      BY <2>3, Zenon
    <3>2. p + size \in S /\ p + size > p
      BY <3>1
    <3> QED
      BY <3>2
  <2> HIDE DEF n, S, rank, stop, next
  <2> QED
    BY <2>1, <2>2, <2>3 DEF Descends
<1>2. Recurses(f, S, stop, base, next)
  <2>1. PICK g : Recurses(g, S, stop, base, next)
    <3> HIDE DEF n, S, rank, stop, base, next
    <3> QED
      BY <1>1, TailRecursion
  <2>2. \A p \in S : g[p] = IF last - p >= 2 * size /\ Plain(t, p, size) THEN g[p + size] ELSE p
    BY <2>1, Zenon DEF Recurses
  <2>3. g = [p \in S |-> IF last - p >= 2 * size /\ Plain(t, p, size) THEN g[p + size] ELSE p]
    BY <2>1, <2>2, Zenon DEF Recurses
  <2> HIDE DEF S
  <2>4. f = [p \in S |-> IF last - p >= 2 * size /\ Plain(t, p, size) THEN f[p + size] ELSE p]
    BY <2>3, Zenon DEF SkipWords, S, Plain
  <2> HIDE DEF f
  <2>5. f = [p \in S |-> f[p]]
    BY <2>4, Zenon
  <2>6. \A p \in S : f[p] = IF stop[p] THEN base[p] ELSE f[next[p]]
    BY <2>4, Zenon
  <2> QED
    BY <2>5, <2>6, Zenon DEF Recurses
<1>3. KeptUntil(P, stop, next)
  BY DEF KeptUntil
<1>4. StopsIn(P, stop, base, f, a)
  <2>1. P \subseteq S /\ a \in P
    OBVIOUS
  <2> HIDE DEF n, S, rank, stop, base, next, f
  <2> QED
    BY <1>1, <1>2, <1>3, <2>1, TailResult
<1> QED
  BY <1>4 DEF StopsIn

(* Where the strict search throws.                                         *)
Refused(t, p) == At(t, p) = "\n" \/ (At(t, p) = "\\" /\ At(t, p + 1) \notin Escapable)

(***************************************************************************)
(* The strict search, likewise, stops in the set or throws.                *)
(***************************************************************************)
LEMMA StrictEndFinds ==
  ASSUME NEW t, Len(t) \in Nat, NEW last, NEW b, NEW P \in SUBSET (1 .. (Len(t) + 3)),
         \A p \in P : ~ Stops(t, last, b, p) /\ ~ Refused(t, p) => Step(t, p) \in P,
         NEW a \in P
  PROVE  \/ StrictEnd(t, last, b)[a] = 0
         \/ StrictEnd(t, last, b)[a] \in P /\ Stops(t, last, b, StrictEnd(t, last, b)[a])
<1> DEFINE n == Len(t) + 3
           S == 1 .. (Len(t) + 3)
           rank == [p \in S |-> n - p]
           stop == [p \in S |-> Stops(t, last, b, p) \/ Refused(t, p)]
           base == [p \in S |-> IF Stops(t, last, b, p) THEN p ELSE 0]
           next == [p \in S |-> Step(t, p)]
           f == StrictEnd(t, last, b)
<1>1. Descends(n, S, rank, stop, next)
  <2>1. n \in Nat /\ rank \in [S -> 0 .. n]
    OBVIOUS
  <2>2. stop \in [S -> BOOLEAN]
    BY DEF Stops, Exhausted
  <2>3. ASSUME NEW p \in S, ~ stop[p]
        PROVE  next[p] \in S /\ rank[next[p]] < rank[p]
    <3>1. ~ Stops(t, last, b, p)
      BY <2>3, Zenon
    <3>2. p <= Len(t) + 1
      <4>1. p \in Nat
        OBVIOUS
      <4> QED
        BY <3>1, <4>1, StopsAtLast, Zenon
    <3>3. Step(t, p) \in S /\ Step(t, p) > p
      BY <3>2 DEF Step
    <3> QED
      BY <3>3
  <2> HIDE DEF n, S, rank, stop, next
  <2> QED
    BY <2>1, <2>2, <2>3 DEF Descends
<1>2. Recurses(f, S, stop, base, next)
  <2>1. PICK g : Recurses(g, S, stop, base, next)
    <3> HIDE DEF n, S, rank, stop, base, next
    <3> QED
      BY <1>1, TailRecursion
  <2>2. \A p \in S : g[p] = IF Stops(t, last, b, p) THEN p ELSE IF Refused(t, p) THEN 0 ELSE g[Step(t, p)]
    BY <2>1, Zenon DEF Recurses
  <2>3. g = [p \in S |-> IF Stops(t, last, b, p) THEN p ELSE IF Refused(t, p) THEN 0 ELSE g[Step(t, p)]]
    BY <2>1, <2>2, Zenon DEF Recurses
  <2> HIDE DEF S
  <2>4. f = [p \in S |-> IF Stops(t, last, b, p) THEN p ELSE IF Refused(t, p) THEN 0 ELSE f[Step(t, p)]]
    BY <2>3, Zenon DEF StrictEnd, S, Step, Refused
  <2> HIDE DEF f
  <2>5. f = [p \in S |-> f[p]]
    BY <2>4, Zenon
  <2>6. \A p \in S : f[p] = IF stop[p] THEN base[p] ELSE f[next[p]]
    BY <2>4, Zenon
  <2> QED
    BY <2>5, <2>6, Zenon DEF Recurses
<1>3. KeptUntil(P, stop, next)
  BY DEF KeptUntil
<1>4. StopsIn(P, stop, base, f, a)
  <2>1. P \subseteq S /\ a \in P
    OBVIOUS
  <2> HIDE DEF n, S, rank, stop, base, next, f
  <2> QED
    BY <1>1, <1>2, <1>3, <2>1, TailResult
<1> QED
  BY <1>4 DEF StopsIn

(***************************************************************************)
(* The least position of a set, as the models write it.                    *)
(***************************************************************************)
LEMMA MinIsLeast ==
  ASSUME NEW S \in SUBSET Nat, S # {}
  PROVE  Min(S) \in S /\ \A i \in S : Min(S) <= i
<1>1. \E i \in S : \A j \in S : i <= j
  BY LeastExists
<1> QED
  BY <1>1, Zenon DEF Min

(***************************************************************************)
(* What is assumed of the constants and given to a call, as numbers.       *)
(***************************************************************************)
LEMMA BlockType == Block \in Nat \ {0}
BY BlockAssumption

(***************************************************************************)
(* Behind a whole block, the search by blocks is still in the text.        *)
(***************************************************************************)
LEMMA NextState ==
  ASSUME NEW t, Len(t) \in Nat, NEW last, last = Len(t) + 1, NEW s \in States(t), ~ (last - s.at < Block)
  PROVE  /\ [at |-> s.at + Block, carry |-> Escaping(t, s).carry, note |-> Noted(t, s)] \in States(t)
         /\ s.at \in Nat /\ s.at + Block <= Len(t) + 1
<1>1. Block \in Nat /\ Block > 0
  BY BlockType
<1>2. s.at \in 1 .. (Len(t) + 3) /\ s.note \in -1 .. (Block - 1)
  BY DEF States
<1>3. s.at + Block \in 1 .. (Len(t) + 3) /\ s.at + Block <= Len(t) + 1
  BY <1>1, <1>2
<1>4. Escaping(t, s).carry \in SUBSET {0}
  BY DEF Escaping, FindEscaped
<1>5. Noted(t, s) \in -1 .. (Block - 1)
  <2> DEFINE slashes == Bits(t, s.at, "\\")
  <2>1. slashes \in SUBSET (0 .. (Block - 1))
    BY DEF Bits
  <2> HIDE DEF slashes
  <2>2. CASE slashes # {} /\ s.note < 0
    <3>1. slashes \in SUBSET Nat
      BY <1>1, <2>1
    <3>2. Min(slashes) \in 0 .. (Block - 1)
      BY <2>1, <2>2, <3>1, MinIsLeast
    <3>3. Noted(t, s) = Min(slashes)
      BY <2>2, Zenon DEF Noted, slashes
    <3> QED
      BY <1>1, <3>2, <3>3
  <2>3. CASE ~ (slashes # {} /\ s.note < 0)
    <3>1. Noted(t, s) = s.note
      BY <2>3, Zenon DEF Noted, slashes
    <3> QED
      BY <1>2, <3>1, Zenon
  <2> QED
    BY <2>2, <2>3, Zenon
<1> QED
  BY <1>2, <1>3, <1>4, <1>5 DEF States

(* The states in which the search by blocks stops, and its answer there.   *)
BlockStops(t, last, s) == last - s.at < Block \/ Quotes(t, s) # {}
BlockAnswer(t, from, last, b, s) ==
  IF last - s.at < Block THEN LastSearch(t, from, last, b, s.at, s.note)
  ELSE [end |-> s.at + Min(Quotes(t, s)), escape |-> Noted(t, s)]
(* The state behind a whole block.                                         *)
NextBlock(t, s) == [at |-> s.at + Block, carry |-> Escaping(t, s).carry, note |-> Noted(t, s)]

(* States that the search by blocks does not leave before it stops, and    *)
(* its answer in one of them.                                              *)
StaysIn(P, t, last) ==
  /\ Len(t) \in Nat /\ last = Len(t) + 1 /\ P \subseteq States(t)
  /\ \A s \in P : ~ BlockStops(t, last, s) => NextBlock(t, s) \in P
AnswersFrom(P, t, from, last, b, a) ==
  \E s \in P : BlockStops(t, last, s) /\ ByBlocks(t, from, last, b)[a] = BlockAnswer(t, from, last, b, s)

(***************************************************************************)
(* The search by blocks, if it starts in a set of states that it does not  *)
(* leave before it stops, gives the answer of one of them.                 *)
(***************************************************************************)
LEMMA BlocksFind ==
  ASSUME NEW t, NEW from, NEW last, NEW b, NEW P, StaysIn(P, t, last), NEW a, a \in P
  PROVE  AnswersFrom(P, t, from, last, b, a)
<1> USE DEF StaysIn, AnswersFrom
<1> DEFINE n == Len(t) + 3
           S == States(t)
           rank == [s \in S |-> n - s.at]
           stop == [s \in S |-> BlockStops(t, last, s)]
           base == [s \in S |-> BlockAnswer(t, from, last, b, s)]
           next == [s \in S |-> NextBlock(t, s)]
           f == ByBlocks(t, from, last, b)
<1>1. Descends(n, S, rank, stop, next)
  <2>1. n \in Nat /\ rank \in [S -> 0 .. n]
    BY DEF States
  <2>2. stop \in [S -> BOOLEAN]
    BY DEF BlockStops
  <2>3. ASSUME NEW s \in S, ~ stop[s]
        PROVE  next[s] \in S /\ rank[next[s]] < rank[s]
    <3>1. ~ BlockStops(t, last, s)
      BY <2>3, Zenon
    <3>2. ~ (last - s.at < Block)
      BY <3>1, Zenon DEF BlockStops
    <3>3. NextBlock(t, s) \in S /\ s.at \in Nat /\ s.at + Block <= Len(t) + 1
      BY <3>2, NextState DEF NextBlock
    <3>4. NextBlock(t, s).at = s.at + Block
      BY DEF NextBlock
    <3>5. Block \in Nat /\ Block > 0
      BY BlockType
    <3>6. rank[NextBlock(t, s)] = n - (s.at + Block) /\ rank[s] = n - s.at
      BY <3>3, <3>4
    <3> HIDE DEF S, rank
    <3>7. rank[NextBlock(t, s)] < rank[s]
      BY <3>3, <3>5, <3>6
    <3> QED
      BY <3>3, <3>7, Zenon
  <2> HIDE DEF n, S, rank, stop, next
  <2> QED
    BY <2>1, <2>2, <2>3 DEF Descends
<1>2. Recurses(f, S, stop, base, next)
  <2>1. PICK g : Recurses(g, S, stop, base, next)
    <3> HIDE DEF n, S, rank, stop, base, next
    <3> QED
      BY <1>1, TailRecursion
  <2>2. \A s \in S : g[s] = IF last - s.at < Block THEN LastSearch(t, from, last, b, s.at, s.note)
                            ELSE IF Quotes(t, s) # {} THEN [end |-> s.at + Min(Quotes(t, s)), escape |-> Noted(t, s)]
                            ELSE g[NextBlock(t, s)]
    BY <2>1, Zenon DEF Recurses, BlockStops, BlockAnswer
  <2>3. g = [s \in S |-> IF last - s.at < Block THEN LastSearch(t, from, last, b, s.at, s.note)
                         ELSE IF Quotes(t, s) # {} THEN [end |-> s.at + Min(Quotes(t, s)), escape |-> Noted(t, s)]
                         ELSE g[NextBlock(t, s)]]
    BY <2>1, <2>2, Zenon DEF Recurses
  <2> HIDE DEF S
  <2>4. f = [s \in S |-> IF last - s.at < Block THEN LastSearch(t, from, last, b, s.at, s.note)
                         ELSE IF Quotes(t, s) # {} THEN [end |-> s.at + Min(Quotes(t, s)), escape |-> Noted(t, s)]
                         ELSE f[NextBlock(t, s)]]
    BY <2>3, Zenon DEF ByBlocks, S, NextBlock
  <2> HIDE DEF f
  <2>5. f = [s \in S |-> f[s]]
    BY <2>4, Zenon
  <2>6. \A s \in S : f[s] = IF stop[s] THEN base[s] ELSE f[next[s]]
    BY <2>4, Zenon DEF BlockStops, BlockAnswer
  <2> QED
    BY <2>5, <2>6, Zenon DEF Recurses
<1>3. KeptUntil(P, stop, next)
  BY DEF KeptUntil
<1>4. StopsIn(P, stop, base, f, a)
  <2>1. P \subseteq S /\ a \in P
    OBVIOUS
  <2> HIDE DEF n, S, rank, stop, base, next, f
  <2> QED
    BY <1>1, <1>2, <1>3, <2>1, TailResult
<1> QED
  BY <1>4 DEF StopsIn

-----------------------------------------------------------------------------
(* The text that is skipped is not empty.                                  *)
Given ==
  /\ call \in {"item", "trim", "next", "string"}
  /\ text \in Seq(STRING) /\ text # <<>> /\ \A p \in 1 .. Len(text) : text[p] # NUL
  /\ bound \in {"range", "none", "zero"}
  /\ comments \in {"none", "cpp", "hash"}
  /\ exec \in {"constant", "strict", "runtime", "block"}
  /\ start \in {1, 2}
  /\ call # "item" => start = 2
  /\ call # "string" => text[1] \in Left
  /\ call = "string" => text[1] = "\"" /\ comments = "none"

(***************************************************************************)
(* There is an end behind the last character ...                           *)
(***************************************************************************)
LEMMA LastType ==
  ASSUME Given
  PROVE  Len(text) \in Nat \ {0} /\ Last \in Nat /\ Last = Len(text) + 1
<1>1. Len(text) \in Nat \ {0}
  <2>1. text \in Seq(STRING) /\ text # <<>>
    BY Zenon DEF Given
  <2> QED
    BY <2>1
<1> QED
  BY <1>1 DEF Last

(***************************************************************************)
(* ... in front of which whatever is not the terminator is.                *)
(***************************************************************************)
LEMMA InText ==
  ASSUME Given, NEW p \in Nat, p >= 1, At(text, p) # NUL
  PROVE  p <= Len(text)
<1>1. p \in 1 .. Len(text)
  BY Zenon DEF At
<1> QED
  BY <1>1

(***************************************************************************)
(* The next of a character is in the text, or is the end of it if there is *)
(* a check, or is behind it.                                               *)
(***************************************************************************)
LEMMA NextOfFinds ==
  ASSUME Given, NEW c, NEW p \in Nat, p >= 1
  PROVE  \/ NextOf(c, p) \in p .. Len(text) /\ text[NextOf(c, p)] = c
         \/ Checked /\ NextOf(c, p) \in Nat /\ NextOf(c, p) >= p /\ NextOf(c, p) >= Last /\ (p <= Last => NextOf(c, p) = Last)
         \/ ~ Checked /\ NextOf(c, p) = Last + 1
<1> DEFINE found == {q \in p .. Len(text) : text[q] = c}
<1>1. Len(text) \in Nat /\ Last \in Nat
  BY LastType
<1>2. CASE found # {}
  <2>1. NextOf(c, p) = Min(found)
    BY <1>2, Zenon DEF NextOf
  <2>2. found \in SUBSET Nat
    BY <1>1
  <2>3. Min(found) \in found
    BY <1>2, <2>2, MinIsLeast
  <2> QED
    BY <2>1, <2>3
<1>3. CASE found = {} /\ Checked
  <2>1. NextOf(c, p) = Max({p, Last})
    BY <1>3, Zenon DEF NextOf
  <2>2. Max({p, Last}) \in {p, Last} /\ \A y \in {p, Last} : Max({p, Last}) >= y
    <3>1. \E x \in {p, Last} : \A y \in {p, Last} : x >= y
      BY <1>1
    <3> QED
      BY <3>1, Zenon DEF Max
  <2>3. Max({p, Last}) \in Nat /\ Max({p, Last}) >= p /\ Max({p, Last}) >= Last /\ (p <= Last => Max({p, Last}) = Last)
    <3> DEFINE m == Max({p, Last})
    <3>1. m \in {p, Last} /\ m >= p /\ m >= Last
      BY <2>2
    <3> HIDE DEF m
    <3> QED
      BY <1>1, <3>1 DEF m
  <2> QED
    BY <1>3, <2>1, <2>3
<1>4. CASE found = {} /\ ~ Checked
  BY <1>4, Zenon DEF NextOf
<1> QED
  BY <1>2, <1>3, <1>4

(* Where the character behind the next star is.                            *)
AfterStar(q) ==
  IF Checked /\ NextOf("*", q) >= Last THEN NextOf("*", q) ELSE NextOf("*", q) + 1

(***************************************************************************)
(* It is not in front of the star, nor behind the end if that is checked.  *)
(***************************************************************************)
LEMMA AfterStarType ==
  ASSUME Given, NEW q \in Nat, q >= 1
  PROVE  /\ AfterStar(q) \in Nat
         /\ ~ (AfterStar(q) >= Last) => AfterStar(q) > q /\ AfterStar(q) < Last
         /\ q <= Last => AfterStar(q) >= q /\ AfterStar(q) <= Last + 2 /\ (Checked => AfterStar(q) <= Last)
<1> DEFINE s == NextOf("*", q)
<1>1. Last \in Nat /\ Len(text) \in Nat /\ Last = Len(text) + 1
  BY LastType
<1>2. \/ s \in q .. Len(text)
      \/ Checked /\ s \in Nat /\ s >= q /\ s >= Last /\ (q <= Last => s = Last)
      \/ ~ Checked /\ s = Last + 1
  BY NextOfFinds
<1>3. AfterStar(q) = IF Checked /\ s >= Last THEN s ELSE s + 1
  BY Zenon DEF AfterStar
<1> HIDE DEF s
<1> QED
  BY <1>1, <1>2, <1>3

(* A set of places that is not left from star to star, and that has the    *)
(* place from which the last star is found that is looked for from a.      *)
KeepsTo(P) == \A q \in P : AfterStar(q) < Last /\ text[AfterStar(q)] # "/" => AfterStar(q) + 1 \in P
StarsEndIn(P, a) ==
  \E q \in P : /\ AfterStar(q) >= Last \/ text[AfterStar(q)] = "/"
              /\ BehindStars(a) = IF AfterStar(q) >= Last THEN AfterStar(q) ELSE AfterStar(q) + 1

(***************************************************************************)
(* Such a set has that place in it.                                        *)
(***************************************************************************)
LEMMA StarsStop ==
  ASSUME Given, NEW a \in Nat, a >= 1, a <= Last, NEW P, P \subseteq a .. (Last + 2), a \in P, KeepsTo(P)
  PROVE  StarsEndIn(P, a)
<1> DEFINE n == Last + 2
           S == a .. (Last + 2)
           rank == [q \in S |-> n - q]
           stop == [q \in S |-> AfterStar(q) >= Last \/ text[AfterStar(q)] = "/"]
           base == [q \in S |-> IF AfterStar(q) >= Last THEN AfterStar(q) ELSE AfterStar(q) + 1]
           next == [q \in S |-> AfterStar(q) + 1]
<1>0. Last \in Nat
  BY LastType
<1>1. Descends(n, S, rank, stop, next)
  <2>1. n \in Nat /\ rank \in [S -> 0 .. n]
    BY <1>0
  <2>2. stop \in [S -> BOOLEAN]
    OBVIOUS
  <2>3. ASSUME NEW q \in S, ~ stop[q]
        PROVE  next[q] \in S /\ rank[next[q]] < rank[q]
    <3>1. ~ (AfterStar(q) >= Last)
      BY <2>3, Zenon
    <3>2. q \in Nat /\ q >= 1 /\ q >= a
      BY <1>0
    <3>3. AfterStar(q) \in Nat /\ AfterStar(q) > q /\ AfterStar(q) < Last
      BY <3>1, <3>2, AfterStarType
    <3>4. AfterStar(q) + 1 \in S /\ AfterStar(q) + 1 > q
      BY <1>0, <3>2, <3>3
    <3> QED
      BY <1>0, <3>2, <3>4
  <2> HIDE DEF n, S, rank, stop, next
  <2> QED
    BY <2>1, <2>2, <2>3 DEF Descends
<1>2. PICK f : Recurses(f, S, stop, base, next) /\ BehindStars(a) = f[a]
  <2>1. PICK g : Recurses(g, S, stop, base, next)
    <3> HIDE DEF n, S, rank, stop, base, next
    <3> QED
      BY <1>1, TailRecursion
  <2>2. \A q \in S : g[q] = IF AfterStar(q) >= Last THEN AfterStar(q)
                            ELSE IF text[AfterStar(q)] = "/" THEN AfterStar(q) + 1 ELSE g[AfterStar(q) + 1]
    BY <2>1, Zenon DEF Recurses
  <2>3. g = [q \in S |-> IF AfterStar(q) >= Last THEN AfterStar(q)
                         ELSE IF text[AfterStar(q)] = "/" THEN AfterStar(q) + 1 ELSE g[AfterStar(q) + 1]]
    BY <2>1, <2>2, Zenon DEF Recurses
  <2> DEFINE f == CHOOSE h : h = [q \in S |-> IF AfterStar(q) >= Last THEN AfterStar(q)
                         ELSE IF text[AfterStar(q)] = "/" THEN AfterStar(q) + 1 ELSE h[AfterStar(q) + 1]]
  <2> HIDE DEF S
  <2>4. f = [q \in S |-> IF AfterStar(q) >= Last THEN AfterStar(q)
                         ELSE IF text[AfterStar(q)] = "/" THEN AfterStar(q) + 1 ELSE f[AfterStar(q) + 1]]
    BY <2>3, Zenon
  <2>5. BehindStars(a) = f[a]
    BY Zenon DEF BehindStars, S, AfterStar
  <2> HIDE DEF f
  <2>6. f = [q \in S |-> f[q]]
    BY <2>4, Zenon
  <2>7. \A q \in S : f[q] = IF stop[q] THEN base[q] ELSE f[next[q]]
    BY <2>4, Zenon
  <2>8. Recurses(f, S, stop, base, next)
    BY <2>6, <2>7, Zenon DEF Recurses
  <2> QED
    BY <2>5, <2>8, Zenon
<1>3. KeptUntil(P, stop, next)
  <2>1. ASSUME NEW q \in P, ~ stop[q]
        PROVE  next[q] \in P
    <3>1. q \in S /\ q \in Nat /\ q >= 1
      BY <1>0
    <3>2. ~ (AfterStar(q) >= Last) /\ text[AfterStar(q)] # "/"
      BY <2>1, <3>1, Zenon
    <3>3. AfterStar(q) < Last
      BY <3>1, <3>2, AfterStarType
    <3> QED
      BY <3>1, <3>2, <3>3, Zenon DEF KeepsTo
  <2> HIDE DEF stop, next
  <2> QED
    BY <2>1 DEF KeptUntil
<1>4. StopsIn(P, stop, base, f, a)
  <2> HIDE DEF n, rank, stop, base, next
  <2> QED
    BY <1>1, <1>2, <1>3, TailResult
<1>5. PICK q \in P : stop[q] /\ f[a] = base[q]
  BY <1>4 DEF StopsIn
<1>6. q \in S
  OBVIOUS
<1>7. AfterStar(q) >= Last \/ text[AfterStar(q)] = "/"
  BY <1>5, <1>6, Zenon
<1>8. BehindStars(a) = IF AfterStar(q) >= Last THEN AfterStar(q) ELSE AfterStar(q) + 1
  BY <1>2, <1>5, <1>6, Zenon
<1> QED
  BY <1>7, <1>8 DEF StarsEndIn

(***************************************************************************)
(* Behind a comment between stars the cursor is in the text if the end is  *)
(* checked, and otherwise not far behind it ...                            *)
(***************************************************************************)
LEMMA BehindStarsStays ==
  ASSUME Given, NEW a \in Nat, a >= 1, a <= Last
  PROVE  BehindStars(a) \in a .. (Last + 2) /\ (Checked => BehindStars(a) <= Last)
<1> DEFINE P == a .. Last
<1>1. Last \in Nat
  BY LastType
<1>2. KeepsTo(P)
  <2> SUFFICES ASSUME NEW q \in P, AfterStar(q) < Last PROVE AfterStar(q) + 1 \in P
    BY DEF KeepsTo
  <2>1. q \in Nat /\ q >= 1 /\ q >= a /\ q <= Last
    BY <1>1
  <2>2. AfterStar(q) \in Nat /\ AfterStar(q) >= q
    BY <2>1, AfterStarType
  <2> QED
    BY <1>1, <2>1, <2>2
<1>3. P \subseteq a .. (Last + 2) /\ a \in P
  BY <1>1
<1>4. PICK q \in P : BehindStars(a) = IF AfterStar(q) >= Last THEN AfterStar(q) ELSE AfterStar(q) + 1
  <2> HIDE DEF P
  <2> QED
    BY <1>2, <1>3, StarsStop DEF StarsEndIn
<1>5. q \in Nat /\ q >= 1 /\ q >= a /\ q <= Last
  BY <1>1
<1>6. /\ AfterStar(q) \in Nat /\ AfterStar(q) >= q /\ AfterStar(q) <= Last + 2
      /\ Checked => AfterStar(q) <= Last
  BY <1>5, AfterStarType
<1> QED
  BY <1>1, <1>4, <1>5, <1>6

(***************************************************************************)
(* ... as behind one up to the end of the line ...                         *)
(***************************************************************************)
LEMMA BehindLineStays ==
  ASSUME Given, NEW p \in Nat, p >= 1, p <= Last
  PROVE  BehindLine(p) \in p .. (Last + 2) /\ (Checked => BehindLine(p) <= Last)
<1> DEFINE end == NextOf("\n", p)
<1>1. Last \in Nat /\ Len(text) \in Nat /\ Last = Len(text) + 1
  BY LastType
<1>2. \/ end \in p .. Len(text) /\ text[end] = "\n"
      \/ Checked /\ end = Last
      \/ ~ Checked /\ end = Last + 1
  BY NextOfFinds
<1>3. BehindLine(p) = IF Checked /\ At(text, end) # "\n" THEN end ELSE end + 1
  BY Zenon DEF BehindLine
<1>4. Checked /\ end = Last => At(text, end) # "\n"
  <2>1. Last \notin 1 .. Len(text)
    BY <1>1
  <2>2. At(text, Last) = NUL
    BY <2>1, Zenon DEF At
  <2>3. NUL # "\n"
    BY DEF NUL
  <2> QED
    BY <2>2, <2>3, Zenon
<1> HIDE DEF end
<1>5. CASE end \in p .. Len(text)
  BY <1>1, <1>3, <1>5
<1>6. CASE Checked /\ end = Last
  BY <1>1, <1>3, <1>4, <1>6
<1>7. CASE ~ Checked /\ end = Last + 1
  BY <1>1, <1>3, <1>7
<1> QED
  BY <1>2, <1>5, <1>6, <1>7

(***************************************************************************)
(* ... and behind either.                                                  *)
(***************************************************************************)
LEMMA BehindCommentStays ==
  ASSUME Given, NEW p \in Nat, p >= 1, IsComment(p)
  PROVE  BehindComment(p) \in p .. (Last + 2) /\ (Checked => BehindComment(p) <= Last)
<1>1. Last \in Nat /\ Len(text) \in Nat /\ Last = Len(text) + 1
  BY LastType
<1>2. At(text, p) # NUL
  BY DEF IsComment, NUL
<1>3. p <= Len(text)
  BY <1>2, InText
<1>4. CASE comments = "hash"
  <2>1. BehindComment(p) = BehindLine(p + 1)
    BY <1>4, Zenon DEF BehindComment
  <2>2. p + 1 \in Nat /\ p + 1 >= 1 /\ p + 1 <= Last
    BY <1>1, <1>3
  <2>3. BehindLine(p + 1) \in (p + 1) .. (Last + 2) /\ (Checked => BehindLine(p + 1) <= Last)
    BY <2>2, BehindLineStays
  <2> QED
    BY <1>1, <2>1, <2>3
<1>5. CASE comments # "hash" /\ At(text, p + 1) = "/"
  <2>1. BehindComment(p) = BehindLine(p)
    BY <1>5, Zenon DEF BehindComment
  <2>2. p <= Last
    BY <1>1, <1>3
  <2> QED
    BY <2>1, <2>2, BehindLineStays
<1>6. CASE comments # "hash" /\ At(text, p + 1) # "/"
  <2>1. BehindComment(p) = BehindStars(p + 2)
    BY <1>6, Zenon DEF BehindComment
  <2>2. At(text, p + 1) # NUL
    BY <1>6 DEF IsComment, NUL
  <2>3. p + 1 \in Nat /\ p + 1 >= 1
    OBVIOUS
  <2>4. p + 1 <= Len(text)
    BY <2>2, <2>3, InText
  <2>5. p + 2 \in Nat /\ p + 2 >= 1 /\ p + 2 <= Last
    BY <1>1, <2>4
  <2>6. BehindStars(p + 2) \in (p + 2) .. (Last + 2) /\ (Checked => BehindStars(p + 2) <= Last)
    BY <2>5, BehindStarsStays
  <2> QED
    BY <1>1, <2>1, <2>6
<1> QED
  BY <1>4, <1>5, <1>6

(***************************************************************************)
(* The end a search finds is in front of it, or is where it gave up, and   *)
(* its note is of a place in the text.                                     *)
(***************************************************************************)
LEMMA EndBounds ==
  ASSUME Given, NEW b, NEW p \in Nat, p >= 1, p <= Last
  PROVE  End(text, Last, b)[p] \in p .. (Len(text) + 3)
<1> DEFINE P == p .. (Len(text) + 3)
<1>1. Last \in Nat /\ Len(text) \in Nat /\ Last = Len(text) + 1
  BY LastType
<1>2. P \in SUBSET (1 .. (Len(text) + 3)) /\ p \in P
  BY <1>1
<1>3. ASSUME NEW q \in P, ~ Stops(text, Last, b, q)
      PROVE  Step(text, q) \in P
  <2>1. q \in Nat
    BY <1>1
  <2>2. q <= Len(text) + 1
    BY <1>1, <1>3, <2>1, StopsAtLast, Zenon
  <2> QED
    BY <1>1, <2>1, <2>2 DEF Step
<1> HIDE DEF P
<1>4. End(text, Last, b)[p] \in P
  BY <1>1, <1>2, <1>3, EndFinds
<1> QED
  BY <1>4 DEF P

(***************************************************************************)
(* The first escape noted is a backslash of the text.                      *)
(***************************************************************************)
LEMMA EscapeBounds ==
  ASSUME Given, NEW b, NEW p \in Nat, p >= 1, p <= Last
  PROVE  LET e == FirstEscape(text, Last, b)[p] IN e = 0 \/ (e \in p .. Len(text) /\ At(text, e) = "\\")
<1> DEFINE P == p .. (Len(text) + 3)
           e == FirstEscape(text, Last, b)[p]
<1>1. Last \in Nat /\ Len(text) \in Nat /\ Last = Len(text) + 1
  BY LastType
<1>2. P \in SUBSET (1 .. (Len(text) + 3)) /\ p \in P
  BY <1>1
<1>3. ASSUME NEW q \in P, ~ Stops(text, Last, b, q)
      PROVE  q + 1 \in P
  <2>1. q \in Nat
    BY <1>1
  <2>2. q <= Len(text) + 1
    BY <1>1, <1>3, <2>1, StopsAtLast, Zenon
  <2> QED
    BY <1>1, <2>1, <2>2
<1> HIDE DEF P
<1>4. e = 0 \/ (e \in P /\ At(text, e) = "\\")
  BY <1>1, <1>2, <1>3, FirstEscapeFinds
<1> HIDE DEF e
<1>5. ASSUME e \in P, At(text, e) = "\\" PROVE e \in p .. Len(text)
  <2>1. e \in Nat /\ e >= p /\ e >= 1
    BY <1>1, <1>5 DEF P
  <2>2. At(text, e) # NUL
    BY <1>5 DEF NUL
  <2>3. e <= Len(text)
    BY <2>1, <2>2, InText
  <2> QED
    BY <1>1, <2>1, <2>3
<1> QED
  BY <1>4, <1>5 DEF e

(***************************************************************************)
(* Passing words does not leave the text.                                  *)
(***************************************************************************)
LEMMA WordStartBounds ==
  ASSUME Given, NEW p \in Nat, p >= 1, p <= Last
  PROVE  WordStart(text, p, Last) \in p .. Last
<1> DEFINE P == p .. (Len(text) + 1)
<1>1. Last \in Nat /\ Len(text) \in Nat /\ Last = Len(text) + 1
  BY LastType
<1>2. P \in SUBSET (1 .. (Len(text) + 1)) /\ p \in P
  BY <1>1
<1>3. ASSUME NEW size \in Nat \ {0}
      PROVE  SkipWords(text, Last, size)[p] \in P
  <2>1. \A q \in P : Last - q >= 2 * size => q + size \in P
    BY <1>1
  <2> HIDE DEF P
  <2> QED
    BY <1>1, <1>2, <2>1, SkipWordsStays
<1>4. BigWord \in Nat \ {0} /\ SmallWord \in Nat \ {0}
  BY BlockAssumption
<1>5. WordStart(text, p, Last) \in P
  <2> HIDE DEF P
  <2> QED
    BY <1>2, <1>3, <1>4, Zenon DEF WordStart
<1> QED
  BY <1>1, <1>5

(***************************************************************************)
(* The strict search finds no end in front of it.                          *)
(***************************************************************************)
LEMMA StrictBounds ==
  ASSUME Given, NEW b, NEW p \in Nat, p >= 1, p <= Last
  PROVE  StrictEnd(text, Last, b)[p] \in {0} \cup (p .. (Len(text) + 3))
<1> DEFINE P == p .. (Len(text) + 3)
<1>1. Last \in Nat /\ Len(text) \in Nat /\ Last = Len(text) + 1
  BY LastType
<1>2. P \in SUBSET (1 .. (Len(text) + 3)) /\ p \in P
  BY <1>1
<1>3. ASSUME NEW q \in P, ~ Stops(text, Last, b, q)
      PROVE  Step(text, q) \in P
  <2>1. q \in Nat
    BY <1>1
  <2>2. q <= Len(text) + 1
    BY <1>1, <1>3, <2>1, StopsAtLast, Zenon
  <2> QED
    BY <1>1, <2>1, <2>2 DEF Step
<1> HIDE DEF P
<1>4. StrictEnd(text, Last, b)[p] = 0 \/ StrictEnd(text, Last, b)[p] \in P
  BY <1>1, <1>2, <1>3, StrictEndFinds
<1> QED
  BY <1>4 DEF P

(* What an answer of a search from p on can be.                            *)
Bounded(found, p) ==
  /\ found.end \in {0} \cup (p .. (Len(text) + 3))
  /\ found.escape \in -Len(text) .. Len(text)

(***************************************************************************)
(* The search by blocks finds an end that is not in front of it, and its   *)
(* note is of a place in the text ...                                      *)
(***************************************************************************)
LEMMA BlockBounds ==
  ASSUME Given, NEW p \in Nat, p >= 1, p <= Last
  PROVE  Bounded(BlockSearch(text, p, Last, bound), p) /\ BlockSearch(text, p, Last, bound).end # 0
<1> DEFINE P == {s \in States(text) : s.at >= p /\ s.at <= Last /\ s.note <= Len(text)}
           a == [at |-> p, carry |-> {}, note |-> -1]
<1>1. Last \in Nat /\ Len(text) \in Nat \ {0} /\ Last = Len(text) + 1
  BY LastType
<1>2. Block \in Nat /\ Block > 0
  BY BlockType
<1>3. a \in P
  BY <1>1, <1>2 DEF States
<1>4. ASSUME NEW s \in P, ~ (Last - s.at < Block)
      PROVE  NextBlock(text, s) \in P /\ Noted(text, s) \in -1 .. Len(text)
  <2>1. s \in States(text) /\ s.at >= p
    OBVIOUS
  <2>2. NextBlock(text, s) \in States(text) /\ s.at \in Nat /\ s.at + Block <= Len(text) + 1
    BY <1>1, <1>4, <2>1, NextState DEF NextBlock
  <2>3. NextBlock(text, s).at = s.at + Block /\ NextBlock(text, s).note = Noted(text, s)
    BY DEF NextBlock
  <2>4. Noted(text, s) \in -1 .. (Block - 1)
    BY <2>2, <2>3 DEF States
  <2>5. Block <= Len(text)
    BY <1>1, <1>2, <2>1, <2>2
  <2>6. Noted(text, s) \in -1 .. Len(text)
    BY <1>1, <1>2, <2>4, <2>5
  <2>7. s.at + Block >= p /\ s.at + Block <= Last /\ Noted(text, s) <= Len(text)
    BY <1>1, <1>2, <2>1, <2>2, <2>6
  <2> QED
    BY <2>2, <2>3, <2>6, <2>7
<1>5. \A s \in P : ~ BlockStops(text, Last, s) => NextBlock(text, s) \in P
  BY <1>4, Zenon DEF BlockStops
<1>6. P \in SUBSET States(text)
  OBVIOUS
<1>7. PICK s \in P : /\ BlockStops(text, Last, s)
                     /\ ByBlocks(text, p, Last, bound)[a] = BlockAnswer(text, p, Last, bound, s)
  <2> HIDE DEF P, a
  <2>1. StaysIn(P, text, Last)
    BY <1>1, <1>5, <1>6 DEF StaysIn
  <2>2. AnswersFrom(P, text, p, Last, bound, a)
    BY <1>3, <2>1, BlocksFind
  <2> QED
    BY <2>2 DEF AnswersFrom
<1>8. BlockSearch(text, p, Last, bound) = BlockAnswer(text, p, Last, bound, s)
  BY <1>7, Zenon DEF BlockSearch
<1>9. /\ s.at \in Nat /\ s.at >= p /\ s.at >= 1 /\ s.at <= Last
      /\ s.note \in -1 .. Len(text) /\ s \in States(text)
  <2>1. s \in States(text) /\ s.at >= p /\ s.at <= Last /\ s.note <= Len(text)
    OBVIOUS
  <2>2. s.at \in Nat /\ s.note \in -1 .. (Block - 1)
    BY <1>1, <2>1 DEF States
  <2> QED
    BY <1>1, <1>2, <2>1, <2>2
<1>10. CASE Last - s.at < Block
  <2> DEFINE found == End(text, Last, InRange(bound))[s.at]
             e == FirstEscape(text, Last, InRange(bound))[s.at]
             answer == LastSearch(text, p, Last, bound, s.at, s.note)
  <2>1. BlockSearch(text, p, Last, bound) = answer
    BY <1>8, <1>10, Zenon DEF BlockAnswer
  <2>2. found \in s.at .. (Len(text) + 3)
    BY <1>9, EndBounds
  <2>3. e = 0 \/ e \in s.at .. Len(text)
    BY <1>9, EscapeBounds
  <2>4. /\ answer.end = IF bound # "none" /\ found > Last THEN Last ELSE found
        /\ answer.escape = IF s.note < 0 THEN (IF e = 0 THEN -1 ELSE p - e) ELSE s.note
    BY DEF LastSearch, Note
  <2> HIDE DEF found, e, answer
  <2>5. answer.end \in p .. (Len(text) + 3) /\ answer.end # 0
    BY <1>1, <1>9, <2>2, <2>4
  <2>6. answer.escape \in -Len(text) .. Len(text)
    <3>1. e = 0 \/ p - e \in -Len(text) .. Len(text)
      BY <1>1, <1>9, <2>3
    <3> QED
      BY <1>1, <1>9, <2>4, <3>1
  <2> QED
    BY <2>1, <2>5, <2>6 DEF Bounded
<1>11. CASE ~ (Last - s.at < Block)
  <2> DEFINE quotes == Quotes(text, s)
  <2>1. quotes # {}
    BY <1>7, <1>11, Zenon DEF BlockStops
  <2>2. quotes \in SUBSET (0 .. (Block - 1))
    BY DEF Quotes, Bits
  <2>3. quotes \in SUBSET Nat
    BY <1>2, <2>2
  <2> HIDE DEF quotes
  <2>4. Min(quotes) \in 0 .. (Block - 1)
    BY <2>1, <2>2, <2>3, MinIsLeast
  <2>5. BlockSearch(text, p, Last, bound) = [end |-> s.at + Min(quotes), escape |-> Noted(text, s)]
    BY <1>8, <1>11, Zenon DEF BlockAnswer, quotes
  <2>6. BlockSearch(text, p, Last, bound).end = s.at + Min(quotes) /\ BlockSearch(text, p, Last, bound).escape = Noted(text, s)
    BY <2>5
  <2>7. Noted(text, s) \in -1 .. Len(text)
    BY <1>4, <1>11
  <2>8. s.at + Min(quotes) \in p .. (Len(text) + 3) /\ s.at + Min(quotes) # 0
    <3> DEFINE here == s.at  quote == Min(quotes)
    <3>1. here \in Nat /\ here >= p /\ here >= 1 /\ here + Block <= Len(text) + 1
      BY <1>1, <1>2, <1>9, <1>11
    <3>2. quote \in Nat /\ quote < Block
      BY <1>2, <2>4
    <3> HIDE DEF here, quote
    <3>3. here + quote \in p .. (Len(text) + 3) /\ here + quote # 0
      BY <1>1, <1>2, <3>1, <3>2
    <3> QED
      BY <3>3 DEF here, quote
  <2>9. Noted(text, s) \in -Len(text) .. Len(text)
    BY <1>1, <2>7
  <2> QED
    BY <2>6, <2>8, <2>9 DEF Bounded
<1> QED
  BY <1>10, <1>11

(***************************************************************************)
(* ... like that of any way to search.                                     *)
(***************************************************************************)
LEMMA SearchBounds ==
  ASSUME Given, NEW p \in Nat, p >= 1, p <= Last
  PROVE  /\ Bounded(Search(exec, text, p, Last, bound), p)
         /\ exec # "strict" => Search(exec, text, p, Last, bound).end # 0
<1> DEFINE found == Search(exec, text, p, Last, bound)
<1>1. Last \in Nat /\ Len(text) \in Nat \ {0} /\ Last = Len(text) + 1
  BY LastType
<1>2. CASE exec = "constant"
  <2> DEFINE w == WordStart(text, p, Last)
             e == FirstEscape(text, Last, bound)[w]
  <2>1. found = ConstantSearch(text, p, Last, bound)
    BY <1>2, Zenon DEF Search
  <2>2. w \in p .. Last
    BY WordStartBounds
  <2>3. found.end = End(text, Last, bound)[w] /\ found.escape = IF e = 0 THEN -1 ELSE e - p
    BY <2>1 DEF ConstantSearch, Note
  <2> HIDE DEF w
  <2>4. w \in Nat /\ w >= 1 /\ w <= Last /\ w >= p
    BY <1>1, <2>2
  <2>5. End(text, Last, bound)[w] \in w .. (Len(text) + 3)
    BY <2>4, EndBounds
  <2>6. e = 0 \/ e \in w .. Len(text)
    BY <2>4, EscapeBounds
  <2> HIDE DEF e, found
  <2>7. found.end \in p .. (Len(text) + 3) /\ found.end # 0
    BY <1>1, <2>3, <2>4, <2>5
  <2>8. found.escape \in -Len(text) .. Len(text)
    BY <1>1, <2>3, <2>4, <2>6
  <2> QED
    BY <2>7, <2>8 DEF Bounded, found
<1>3. CASE exec = "strict"
  <2> DEFINE e == FirstEscape(text, Last, bound)[p]
  <2>1. found = StrictSearch(text, p, Last, bound)
    BY <1>3, Zenon DEF Search
  <2>3. found.end = StrictEnd(text, Last, bound)[p] /\ found.escape = IF e = 0 THEN -1 ELSE e - p
    BY <2>1 DEF StrictSearch, Note
  <2>5. found.end \in {0} \cup (p .. (Len(text) + 3))
    BY <2>3, StrictBounds
  <2>6. e = 0 \/ e \in p .. Len(text)
    BY EscapeBounds
  <2> HIDE DEF e, found
  <2>8. found.escape \in -Len(text) .. Len(text)
    BY <1>1, <2>3, <2>6
  <2> QED
    BY <1>3, <2>5, <2>8 DEF Bounded, found
<1>4. CASE exec = "runtime"
  <2> DEFINE e == FirstEscape(text, Last, InRange(bound))[p]
  <2>1. found = RuntimeSearch(text, p, Last, bound)
    BY <1>4, Zenon DEF Search
  <2>3. found.end = End(text, Last, InRange(bound))[p] /\ found.escape = IF e = 0 THEN -1 ELSE p - e
    BY <2>1 DEF RuntimeSearch, Note
  <2>5. found.end \in p .. (Len(text) + 3)
    BY <2>3, EndBounds
  <2>6. e = 0 \/ e \in p .. Len(text)
    BY EscapeBounds
  <2> HIDE DEF e, found
  <2>7. found.end # 0
    BY <2>5
  <2>8. found.escape \in -Len(text) .. Len(text)
    BY <1>1, <2>3, <2>6
  <2> QED
    BY <2>5, <2>7, <2>8 DEF Bounded, found
<1>5. CASE exec = "block"
  <2>1. found = BlockSearch(text, p, Last, bound)
    BY <1>5, Zenon DEF Search
  <2> QED
    BY <2>1, BlockBounds
<1> QED
  BY <1>2, <1>3, <1>4, <1>5 DEF Given

(***************************************************************************)
(* Where the cursor and the counters of brackets and commas can be.        *)
(***************************************************************************)
Cursor ==
  /\ phase \in {"called", "spaces", "inside", "done", "failed", "nothing", "astray"}
  /\ first \in start .. (2 * Len(text) + 4)
  /\ phase \in {"called", "spaces"} => first <= Last
  /\ phase = "inside" => first <= Last + 1 /\ (bound # "range" => first <= Last)
  /\ phase = "done" /\ Checked => first <= Last
  /\ call \in {"string", "item"} /\ phase = "called" => first = start
  /\ call = "item" => exec # "strict"

Counted ==
  /\ prim \in 0 .. Len(text) /\ sec \in -Len(text) .. Len(text) /\ cnt \in -Len(text) .. Len(text)
  /\ phase = "called" => prim = 1 /\ sec = 0 /\ cnt = 0
  /\ phase = "inside" => /\ prim >= 1 /\ prim < first /\ -first < sec /\ sec < first /\ cnt >= 0 /\ cnt < first

Inv == Given /\ Cursor /\ Counted

(***************************************************************************)
(* The invariant holds when a call begins.                                 *)
(***************************************************************************)
LEMMA InvInit ==
  ASSUME Init
  PROVE  Inv
<1>1. Given
  <2>1. text \in Seq(STRING) /\ text # <<>> /\ \A p \in 1 .. Len(text) : text[p] # NUL
    <3>1. text \in Seq(STRING \ {NUL}) \ {<<>>}
      BY TextsAssumption DEF Init
    <3>2. \A u \in Seq(STRING \ {NUL}) : u \in Seq(STRING) /\ \A p \in 1 .. Len(u) : u[p] # NUL
      OBVIOUS
    <3> QED
      BY <3>1, <3>2, Zenon
  <2>2. exec \in {"constant", "strict", "runtime", "block"}
    BY ExecsAssumption DEF Init
  <2>3. bound \in {"range", "none", "zero"} /\ start \in {1, 2} /\ (call # "item" => start = 2)
    BY DEF Init
  <2> QED
    BY <2>1, <2>2, <2>3 DEF Init, Given
<1>2. Last \in Nat /\ Len(text) \in Nat \ {0} /\ Last = Len(text) + 1
  BY <1>1, LastType
<1>3. phase = "called" /\ first = start /\ prim = 1 /\ sec = 0 /\ cnt = 0 /\ start \in {1, 2}
  BY <1>1 DEF Init, Given
<1>4. call = "item" => exec # "strict"
  BY DEF Init
<1>5. first \in start .. (2 * Len(text) + 4) /\ first <= Last
  BY <1>2, <1>3
<1>6. Cursor
  BY <1>3, <1>4, <1>5 DEF Cursor
<1>7. prim \in 0 .. Len(text) /\ sec \in -Len(text) .. Len(text) /\ cnt \in -Len(text) .. Len(text)
  BY <1>2, <1>3
<1>8. Counted
  BY <1>3, <1>7 DEF Counted
<1> QED
  BY <1>1, <1>6, <1>8 DEF Inv

(***************************************************************************)
(* What is given to a call stays the same while it runs.                   *)
(***************************************************************************)
LEMMA GivenKept ==
  ASSUME Given, UNCHANGED given
  PROVE  Given' /\ Last' = Last /\ Checked' = Checked /\ Len(text') = Len(text)
BY DEF Given, given, Last, Checked

(***************************************************************************)
(* What is known of the cursor and of the counters of an item that is being*)
(* skipped.                                                                *)
(***************************************************************************)
LEMMA InsideType ==
  ASSUME Inv, phase = "inside"
  PROVE  /\ Last \in Nat /\ Len(text) \in Nat \ {0} /\ Last = Len(text) + 1
         /\ start \in {1, 2} /\ first \in Nat /\ first >= start /\ first >= 1 /\ first <= Last + 1
         /\ prim \in 1 .. Len(text) /\ sec \in -Len(text) .. Len(text) /\ cnt \in 0 .. Len(text)
         /\ prim < first /\ -first < sec /\ sec < first /\ cnt < first
<1>1. Last \in Nat /\ Len(text) \in Nat \ {0} /\ Last = Len(text) + 1 /\ start \in {1, 2}
  BY LastType DEF Inv, Given
<1>2. first \in start .. (2 * Len(text) + 4) /\ first <= Last + 1
  BY DEF Inv, Cursor
<1>3. /\ prim \in 0 .. Len(text) /\ sec \in -Len(text) .. Len(text) /\ cnt \in -Len(text) .. Len(text)
      /\ prim >= 1 /\ prim < first /\ -first < sec /\ sec < first /\ cnt >= 0 /\ cnt < first
  BY DEF Inv, Counted
<1> QED
  BY <1>1, <1>2, <1>3

(***************************************************************************)
(* The cursor may go on inside an item by some characters, but not far     *)
(* behind the end if there is one.                                         *)
(***************************************************************************)
LEMMA MoveKeeps ==
  ASSUME Inv, call = "item", phase = "inside", NEW p \in Nat, p > first, p <= Len(text) + 4,
         bound = "range" => p <= Last + 1, Move(p),
         prim' \in 1 .. Len(text), sec' \in -Len(text) .. Len(text), cnt' \in 0 .. Len(text),
         prim' <= first, -first <= sec', sec' <= first, cnt' <= first
  PROVE  Inv'
<1>1. Given' /\ Last' = Last /\ Checked' = Checked /\ Len(text') = Len(text) /\ call' = call /\ bound' = bound
      /\ start' = start /\ exec' = exec /\ first' = p
  BY GivenKept DEF Move, Inv, given
<1>2. /\ Last \in Nat /\ Len(text) \in Nat \ {0} /\ Last = Len(text) + 1
      /\ start \in {1, 2} /\ first \in Nat /\ first >= start
  BY InsideType
<1>3. phase' \in {"inside", "astray"} /\ (phase' = "inside" /\ bound # "range" => ~ (p > Last))
  BY DEF Move
<1>4. p \in start .. (2 * Len(text) + 4) /\ (~ (p > Last) => p <= Last)
  BY <1>2
<1>5. Cursor'
  <2>1. phase' = "inside" => p <= Last + 1 /\ (bound # "range" => p <= Last)
    <3>1. p <= Last => p <= Last + 1
      BY <1>2
    <3> QED
      BY <1>3, <1>4, <3>1
  <2> QED
    BY <1>1, <1>3, <1>4, <2>1 DEF Cursor, Inv
<1>6. Counted'
  <2>1. prim' \in 0 .. Len(text) /\ cnt' \in -Len(text) .. Len(text)
    BY <1>2
  <2>2. prim' >= 1 /\ prim' < p /\ cnt' >= 0 /\ cnt' < p
    BY <1>2
  <2>3. -p < sec' /\ sec' < p
    <3>1. sec' \in Int /\ first \in Int /\ p \in Int
      BY <1>2
    <3>2. -first <= sec' /\ sec' <= first /\ first < p
      OBVIOUS
    <3> QED
      BY <3>1, <3>2
  <2> QED
    BY <1>1, <1>3, <2>1, <2>2, <2>3 DEF Counted
<1> QED
  BY <1>1, <1>5, <1>6 DEF Inv

(***************************************************************************)
(* What is left unchanged when a call ends.                                *)
(***************************************************************************)
LEMMA EndKeeps ==
  ASSUME Inv, UNCHANGED given, phase' \in {"done", "failed", "nothing", "astray"},
         first' \in start .. (2 * Len(text) + 4),
         phase' = "done" /\ Checked => first' <= Last,
         prim' \in 0 .. Len(text), sec' \in -Len(text) .. Len(text), cnt' \in -Len(text) .. Len(text)
  PROVE  Inv'
<1>1. Given' /\ Last' = Last /\ Checked' = Checked /\ Len(text') = Len(text) /\ call' = call /\ bound' = bound
      /\ start' = start /\ exec' = exec
  BY GivenKept DEF Inv, given
<1>2. Cursor'
  BY <1>1 DEF Cursor, Inv
<1>3. Counted'
  BY <1>1 DEF Counted
<1> QED
  BY <1>1, <1>2, <1>3 DEF Inv

(***************************************************************************)
(* Nothing is changed but where the cursor is, behind a character that was *)
(* read.                                                                   *)
(***************************************************************************)
LEMMA Passes ==
  ASSUME Inv, call = "item", phase = "inside", NEW p \in Nat, p > first, p <= Len(text) + 4,
         bound = "range" => p <= Last + 1, Move(p), UNCHANGED Counters
  PROVE  Inv'
<1>1. prim' = prim /\ sec' = sec /\ cnt' = cnt
  BY DEF Counters
<1>2. /\ prim \in 1 .. Len(text) /\ sec \in -Len(text) .. Len(text) /\ cnt \in 0 .. Len(text)
      /\ prim <= first /\ -first <= sec /\ sec <= first /\ cnt <= first
  BY InsideType
<1> QED
  BY <1>1, <1>2, MoveKeeps

(***************************************************************************)
(* A call that fails where it is keeps the invariant.                      *)
(***************************************************************************)
LEMMA CallEndKeeps ==
  ASSUME Inv, UNCHANGED given, phase' \in {"failed", "nothing", "astray"}, first' = first, UNCHANGED Counters
  PROVE  Inv'
<1>1. prim' = prim /\ sec' = sec /\ cnt' = cnt
  BY DEF Counters
<1> QED
  BY <1>1, EndKeeps DEF Inv, Cursor, Counted

(***************************************************************************)
(* The operations on an array or class keep the invariant, one lemma for   *)
(* each: entering it, ...                                                  *)
(***************************************************************************)
LEMMA EnterKeeps ==
  ASSUME Inv, Enter
  PROVE  Inv'
<1>1. Last \in Nat /\ Len(text) \in Nat \ {0} /\ Last = Len(text) + 1 /\ start \in {1, 2} /\ Given
  BY LastType DEF Inv, Given
<1>2. call = "item" /\ phase = "called" /\ first = start /\ first <= Last
  BY DEF Enter, Inv, Cursor
<1>3. prim' = 1 /\ sec' = 0 /\ cnt' = 0
  BY <1>2 DEF Enter, Counters, Inv, Counted
<1>4. first' \in {first, first + 1} /\ (first' = first + 1 => first < Last) /\ (first = 1 => first' = 2)
  <2>1. first = 1 => first < Last /\ At(text, first) = Opening
    BY <1>1 DEF At, Opening
  <2> QED
    BY <2>1 DEF Enter
<1>5. first' \in start .. (2 * Len(text) + 4) /\ first' <= Last /\ first' > 1
  BY <1>1, <1>2, <1>4
<1>6. Given' /\ Last' = Last /\ Checked' = Checked /\ Len(text') = Len(text) /\ call' = call /\ bound' = bound
      /\ start' = start /\ exec' = exec
  BY <1>1, GivenKept DEF Enter, given
<1>7. phase' \in {"nothing", "failed", "inside"}
  BY DEF Enter
<1>8. Cursor'
  <2>1. first' <= Last + 1
    BY <1>1, <1>5
  <2> QED
    BY <1>2, <1>5, <1>6, <1>7, <2>1 DEF Cursor, Inv
<1>9. Counted'
  <2>1. prim' \in 0 .. Len(text) /\ sec' \in -Len(text) .. Len(text) /\ cnt' \in -Len(text) .. Len(text)
    BY <1>1, <1>3
  <2>2. prim' >= 1 /\ prim' < first' /\ -first' < sec' /\ sec' < first' /\ cnt' >= 0 /\ cnt' < first'
    <3>1. PICK f \in Nat : f = first' /\ f > 1
      BY <1>1, <1>5
    <3>2. f > 1
      BY <3>1, Zenon
    <3>3. 1 < f /\ 0 > -f /\ 0 < f
      BY <3>2
    <3>4. prim' < f /\ -f < sec' /\ sec' < f /\ cnt' < f
      BY <1>3, <3>3
    <3>5. prim' >= 1 /\ cnt' >= 0
      BY <1>3
    <3> QED
      BY <3>1, <3>4, <3>5, Zenon
  <2> QED
    BY <1>6, <1>7, <2>1, <2>2 DEF Counted
<1> QED
  BY <1>6, <1>8, <1>9 DEF Inv

(***************************************************************************)
(* A character that is read inside an item is one of the text.             *)
(***************************************************************************)
LEMMA ReadsInText ==
  ASSUME Inv, NEW c, Reads(c), c # NUL
  PROVE  call = "item" /\ phase = "inside" /\ first <= Len(text) /\ At(text, first) = c
<1>1. call = "item" /\ phase = "inside" /\ At(text, first) = c
  BY DEF Reads
<1>2. first \in Nat /\ first >= 1
  BY <1>1, InsideType
<1> QED
  BY <1>1, <1>2, InText DEF Inv

(***************************************************************************)
(* ... a backslash, which is passed with the character behind it, ...      *)
(***************************************************************************)
LEMMA EscapeKeeps ==
  ASSUME Inv, Escape
  PROVE  Inv'
<1>1. call = "item" /\ phase = "inside" /\ first <= Len(text)
  BY ReadsInText DEF Escape, NUL
<1>2. Last = Len(text) + 1 /\ Len(text) \in Nat /\ first \in Nat
  BY <1>1, InsideType
<1>3. first + 2 \in Nat /\ first + 2 > first /\ first + 2 <= Len(text) + 4 /\ first + 2 <= Last + 1
  BY <1>1, <1>2
<1> QED
  BY <1>1, <1>3, Passes DEF Escape

(***************************************************************************)
(* ... a string, whose closing quote has been looked for, ...              *)
(***************************************************************************)
LEMMA StringKeeps ==
  ASSUME Inv, String
  PROVE  Inv'
<1>1. call = "item" /\ phase = "inside" /\ first <= Len(text)
  BY ReadsInText DEF String, NUL
<1>2. Last = Len(text) + 1 /\ Last \in Nat /\ Len(text) \in Nat /\ first \in Nat /\ first >= 1
  BY <1>1, InsideType
<1>3. PICK end \in {EndOfString(first + 1)} :
        IF Checked /\ (end >= Last \/ At(text, end) # "\"") THEN Fail ELSE Move(end + 1)
  BY DEF String
<1>4. end \in (first + 1) .. (Len(text) + 3)
  <2>1. first + 1 \in Nat /\ first + 1 >= 1 /\ first + 1 <= Last
    BY <1>1, <1>2
  <2>2. Given /\ exec # "strict"
    BY <1>1 DEF Inv, Cursor
  <2>3. CASE exec = "constant"
    <3>1. end = End(text, Last, bound)[first + 1]
      BY <2>3 DEF EndOfString
    <3> QED
      BY <2>1, <2>2, <3>1, EndBounds
  <2>4. CASE exec # "constant"
    <3>1. end = Search(exec, text, first + 1, Last, bound).end
      BY <2>4 DEF EndOfString
    <3>2. Bounded(Search(exec, text, first + 1, Last, bound), first + 1) /\ end # 0
      BY <2>1, <2>2, <3>1, SearchBounds
    <3> QED
      BY <3>1, <3>2 DEF Bounded
  <2> QED
    BY <2>3, <2>4
<1>5. CASE Checked /\ (end >= Last \/ At(text, end) # "\"")
  <2>1. first' = first /\ phase' = "failed" /\ UNCHANGED given /\ UNCHANGED Counters
    BY <1>3, <1>5 DEF Fail, String
  <2> QED
    BY <2>1, CallEndKeeps
<1>6. CASE ~ (Checked /\ (end >= Last \/ At(text, end) # "\""))
  <2>1. Move(end + 1) /\ UNCHANGED Counters
    BY <1>3, <1>6 DEF String
  <2>2. end \in Nat /\ end + 1 \in Nat /\ end + 1 > first /\ end + 1 <= Len(text) + 4
    BY <1>2, <1>4
  <2>3. bound = "range" => end + 1 <= Last + 1
    <3>1. bound = "range" => ~ (end >= Last)
      BY <1>6, Zenon DEF Checked
    <3>2. ~ (end >= Last) => end + 1 <= Last + 1
      BY <1>2, <2>2
    <3> QED
      BY <3>1, <3>2
  <2> QED
    BY <1>1, <2>1, <2>2, <2>3, Passes
<1> QED
  BY <1>5, <1>6

(***************************************************************************)
(* Behind one character, with the counters changed by one at most.         *)
(***************************************************************************)
LEMMA CountsKeep ==
  ASSUME Inv, NEW c, Reads(c), c # NUL, Move(first + 1),
         prim' \in {prim, prim + 1, prim - 1}, prim' >= 1,
         sec' \in {sec, sec + 1, sec - 1}, cnt' \in {cnt, cnt + 1}
  PROVE  Inv'
<1>1. call = "item" /\ phase = "inside" /\ first <= Len(text)
  BY ReadsInText
<1>2. /\ Last = Len(text) + 1 /\ Len(text) \in Nat \ {0} /\ first \in Nat /\ first >= 1
      /\ prim \in 1 .. Len(text) /\ sec \in -Len(text) .. Len(text) /\ cnt \in 0 .. Len(text)
      /\ prim < first /\ -first < sec /\ sec < first /\ cnt < first
  BY <1>1, InsideType
<1>3. first + 1 \in Nat /\ first + 1 > first /\ first + 1 <= Len(text) + 4 /\ first + 1 <= Last + 1
  BY <1>1, <1>2
<1>4. PICK a \in Int : a = prim'
  BY <1>2
<1>5. PICK b \in Int : b = sec'
  BY <1>2
<1>6. PICK d \in Int : d = cnt'
  BY <1>2
<1>7. a \in {prim, prim + 1, prim - 1} /\ a >= 1
  BY <1>4, Zenon
<1>8. b \in {sec, sec + 1, sec - 1} /\ d \in {cnt, cnt + 1}
  BY <1>5, <1>6, Zenon
<1>9. a \in 1 .. Len(text) /\ a <= first
  BY <1>1, <1>2, <1>7
<1>10. b \in -Len(text) .. Len(text) /\ -first <= b /\ b <= first
  BY <1>1, <1>2, <1>8
<1>11. d \in 0 .. Len(text) /\ d <= first
  BY <1>1, <1>2, <1>8
<1>12. /\ prim' \in 1 .. Len(text) /\ sec' \in -Len(text) .. Len(text) /\ cnt' \in 0 .. Len(text)
       /\ prim' <= first /\ -first <= sec' /\ sec' <= first /\ cnt' <= first
  BY <1>4, <1>5, <1>6, <1>9, <1>10, <1>11, Zenon
<1> QED
  BY <1>1, <1>3, <1>12, MoveKeeps

(***************************************************************************)
(* The brackets that are looked for are not terminators.                   *)
(***************************************************************************)
LEMMA BracketTypes ==
  ASSUME Inv, call = "item"
  PROVE  Opening # NUL /\ Closing # NUL /\ Other # NUL /\ Partner(Other) # NUL
<1>1. Opening \in Left
  BY DEF Inv, Given, Opening
<1>2. \E b \in Left : b # Opening
  BY DEF Left
<1>3. Other \in Left
  BY <1>2, Zenon DEF Other
<1> QED
  BY <1>1, <1>3 DEF Left, NUL, Closing, Partner

(***************************************************************************)
(* ... a comma, ...                                                        *)
(***************************************************************************)
LEMMA CommaKeeps ==
  ASSUME Inv, Comma
  PROVE  Inv'
<1>1. Reads(",") /\ Move(first + 1) /\ prim' = prim /\ sec' = sec /\ cnt' \in {cnt, cnt + 1}
  BY DEF Comma
<1>2. prim' >= 1
  <2>1. prim \in 1 .. Len(text) /\ Len(text) \in Nat
    BY <1>1, InsideType DEF Reads
  <2>2. prim >= 1
    BY <2>1
  <2> QED
    BY <1>1, <2>2, Zenon
<1>3. "," # NUL
  BY DEF NUL
<1> QED
  BY <1>1, <1>2, <1>3, CountsKeep

(***************************************************************************)
(* ... a bracket like the one the item begins with, ...                    *)
(***************************************************************************)
LEMMA PrimLeftKeeps ==
  ASSUME Inv, PrimLeft
  PROVE  Inv'
<1>1. Reads(Opening) /\ Move(first + 1) /\ prim' = prim + 1 /\ sec' = sec /\ cnt' = cnt
  BY DEF PrimLeft
<1>2. prim' >= 1
  <2>1. prim \in 1 .. Len(text) /\ Len(text) \in Nat
    BY <1>1, InsideType DEF Reads
  <2> QED
    BY <1>1, <2>1
<1>3. Opening # NUL
  BY <1>1, BracketTypes DEF Reads
<1> QED
  BY <1>1, <1>2, <1>3, CountsKeep

(***************************************************************************)
(* ... its partner, which may end the item, ...                            *)
(***************************************************************************)
LEMMA PrimRightKeeps ==
  ASSUME Inv, PrimRight
  PROVE  Inv'
<1>1. Reads(Closing) /\ prim' = prim - 1 /\ sec' = sec /\ cnt' = cnt
  BY DEF PrimRight
<1>2. Closing # NUL
  BY <1>1, BracketTypes DEF Reads
<1>3. call = "item" /\ phase = "inside" /\ first <= Len(text)
  BY <1>1, <1>2, ReadsInText
<1>4. /\ Last = Len(text) + 1 /\ Len(text) \in Nat \ {0} /\ first \in Nat /\ start \in {1, 2} /\ first >= start
      /\ prim \in 1 .. Len(text) /\ sec \in -Len(text) .. Len(text) /\ cnt \in 0 .. Len(text)
  BY <1>3, InsideType
<1>5. CASE prim > 1
  <2>1. Move(first + 1)
    <3>1. prim # 1
      BY <1>4, <1>5
    <3> QED
      BY <1>5, <3>1, Zenon DEF PrimRight
  <2>2. prim - 1 >= 1
    BY <1>4, <1>5
  <2> QED
    BY <1>1, <1>2, <2>1, <2>2, CountsKeep
<1>6. CASE ~ (prim > 1)
  <2>1. prim = 1
    BY <1>4, <1>6
  <2>2. Fail \/ Return(first + 1)
    BY <1>6, <2>1, Zenon DEF PrimRight
  <2>3. prim' \in 0 .. Len(text) /\ sec' \in -Len(text) .. Len(text) /\ cnt' \in -Len(text) .. Len(text)
    BY <1>1, <1>4
  <2>4. UNCHANGED given /\ phase' \in {"done", "failed"} /\ first' \in {first, first + 1}
    BY <2>2 DEF Fail, Return
  <2>5. first' \in start .. (2 * Len(text) + 4) /\ first' <= Last
    BY <1>3, <1>4, <2>4
  <2> QED
    BY <2>3, <2>4, <2>5, EndKeeps
<1> QED
  BY <1>5, <1>6

(***************************************************************************)
(* ... the brackets of the other kind, ...                                 *)
(***************************************************************************)
LEMMA SecKeeps ==
  ASSUME Inv, SecLeft \/ SecRight
  PROVE  Inv'
<1>1. call = "item" /\ phase = "inside"
  BY DEF SecLeft, SecRight, Reads
<1>2. Other # NUL /\ Partner(Other) # NUL /\ prim >= 1
  BY <1>1, BracketTypes, InsideType
<1>3. CASE SecLeft
  <2>1. Reads(Other) /\ Move(first + 1) /\ prim' = prim /\ cnt' = cnt /\ sec' = sec + 1
    BY <1>3 DEF SecLeft
  <2> QED
    BY <1>2, <2>1, CountsKeep
<1>4. CASE SecRight
  <2>1. Reads(Partner(Other)) /\ Move(first + 1) /\ prim' = prim /\ cnt' = cnt /\ sec' = sec - 1
    BY <1>4 DEF SecRight
  <2> QED
    BY <1>2, <2>1, CountsKeep
<1> QED
  BY <1>3, <1>4

(***************************************************************************)
(* The first stop, or the place behind the terminator where there is none. *)
(***************************************************************************)
LEMMA LeastStop ==
  ASSUME NEW p \in Nat, NEW last \in Nat, NEW S \in SUBSET (p .. last)
  PROVE  LET q == IF S = {} THEN last + 1 ELSE Min(S)
         IN q \in Nat /\ q <= last + 1 /\ (q >= p \/ q = last + 1) /\ (S # {} => q <= last)
<1>1. S \in SUBSET Nat
  OBVIOUS
<1>2. CASE S = {}
  BY <1>2
<1>3. CASE S # {}
  <2>1. Min(S) \in p .. last
    BY <1>1, <1>3, MinIsLeast
  <2>2. Min(S) \in Nat /\ Min(S) >= p /\ Min(S) <= last /\ Min(S) <= last + 1
    BY <2>1
  <2> QED
    BY <1>3, <2>2, Zenon
<1> QED
  BY <1>2, <1>3

(***************************************************************************)
(* ... a comment that begins with a slash, ...                             *)
(***************************************************************************)
LEMMA SlashCommentKeeps ==
  ASSUME Inv, SlashComment
  PROVE  Inv'
<1>1. call = "item" /\ phase = "inside" /\ first <= Len(text)
  BY ReadsInText DEF SlashComment, NUL
<1>2. Last = Len(text) + 1 /\ Last \in Nat /\ Len(text) \in Nat /\ first \in Nat
  BY <1>1, InsideType
<1>3. UNCHANGED Counters
  BY DEF SlashComment
<1>4. CASE Checked /\ first + 1 >= Last
  <2>1. Fail
    BY <1>4, Zenon DEF SlashComment
  <2> QED
    BY <1>3, <2>1, CallEndKeeps DEF Fail
<1>5. CASE ~ (Checked /\ first + 1 >= Last)
  <2> DEFINE lines == {q \in (first + 2) .. Last : At(text, q) = "\n" \/ (Checked /\ Last - q <= 1)}
             blocks == {q \in (first + 2) .. Last : At(text, q) = "*" \/ At(text, q + 1) = "/" \/ (Checked /\ Last - q < 3)}
             line == PassedLine(first + 2)
             block == PassedBlock(first + 2)
  <2>1. Checked => first + 2 <= Last
    BY <1>2, <1>5
  <2>2. Move(line + 1) \/ Move(block + 1) \/ Move(first + 3)
    BY <1>5, Zenon DEF SlashComment
  <2>3. first + 2 \in Nat /\ Last - Last <= 1 /\ Last - Last < 3
    BY <1>2
  <2>4. Checked => Last \in lines /\ Last \in blocks
    BY <1>2, <2>1, <2>3
  <2>5. line = IF lines = {} THEN Last + 1 ELSE Min(lines)
    BY Zenon DEF PassedLine
  <2>6. block = IF blocks = {} THEN Last + 1 ELSE Min(blocks)
    BY Zenon DEF PassedBlock
  <2>7. lines \in SUBSET ((first + 2) .. Last) /\ blocks \in SUBSET ((first + 2) .. Last)
    OBVIOUS
  <2> HIDE DEF lines, blocks, line, block
  <2>8. /\ line \in Nat /\ line <= Last + 1 /\ (line >= first + 2 \/ line = Last + 1)
        /\ Checked => line <= Last
    BY <1>2, <2>3, <2>4, <2>5, <2>7, LeastStop
  <2>9. /\ block \in Nat /\ block <= Last + 1 /\ (block >= first + 2 \/ block = Last + 1)
        /\ Checked => block <= Last
    BY <1>2, <2>3, <2>4, <2>6, <2>7, LeastStop
  <2>10. bound = "range" => Checked
    BY DEF Checked
  <2>11. PICK p \in {line + 1, block + 1, first + 3} : Move(p)
    BY <2>2
  <2>12. p \in Nat /\ p > first /\ p <= Len(text) + 4 /\ (Checked => p <= Last + 1)
    BY <1>1, <1>2, <2>1, <2>8, <2>9
  <2> QED
    BY <1>1, <1>3, <2>10, <2>11, <2>12, Passes
<1> QED
  BY <1>4, <1>5

(***************************************************************************)
(* ... one that begins with a hash, ...                                    *)
(***************************************************************************)
LEMMA HashCommentKeeps ==
  ASSUME Inv, HashComment
  PROVE  Inv'
<1>1. call = "item" /\ phase = "inside" /\ first <= Len(text)
  BY ReadsInText DEF HashComment, NUL
<1>2. Last = Len(text) + 1 /\ Last \in Nat /\ Len(text) \in Nat /\ first \in Nat /\ Given
  BY <1>1, InsideType DEF Inv
<1> DEFINE end == NextOf("\n", first + 1)
<1>3. UNCHANGED Counters /\ Move(IF Checked /\ end < Last THEN end ELSE end + 1)
  BY DEF HashComment
<1>4. first + 1 \in Nat /\ first + 1 >= 1 /\ first + 1 <= Last
  BY <1>1, <1>2
<1>5. \/ end \in (first + 1) .. Len(text)
      \/ Checked /\ end = Last
      \/ ~ Checked /\ end = Last + 1
  BY <1>2, <1>4, NextOfFinds
<1>6. bound = "range" => Checked
  BY DEF Checked
<1> HIDE DEF end
<1>7. PICK p \in {end, end + 1} : Move(p)
  BY <1>3
<1>8. p \in Nat /\ p > first /\ p <= Len(text) + 4 /\ (Checked => p <= Last + 1)
  BY <1>1, <1>2, <1>5
<1> QED
  BY <1>1, <1>3, <1>6, <1>7, <1>8, Passes

(***************************************************************************)
(* ... any other character, ...                                            *)
(***************************************************************************)
LEMMA PassKeeps ==
  ASSUME Inv, Pass
  PROVE  Inv'
<1>1. call = "item" /\ phase = "inside" /\ ~ AtEnd /\ Move(first + 1) /\ UNCHANGED Counters
  BY DEF Pass
<1>2. Last = Len(text) + 1 /\ Last \in Nat /\ Len(text) \in Nat /\ first \in Nat /\ first <= Last + 1
  BY <1>1, InsideType
<1>3. bound = "range" => ~ (first >= Last)
  BY <1>1, Zenon DEF AtEnd
<1>4. bound = "range" => first + 1 <= Last + 1
  BY <1>2, <1>3
<1>5. first + 1 \in Nat /\ first + 1 > first /\ first + 1 <= Len(text) + 4
  BY <1>2
<1> QED
  BY <1>1, <1>4, <1>5, Passes

(***************************************************************************)
(* ... and the end of the text.                                            *)
(***************************************************************************)
LEMMA RunOutKeeps ==
  ASSUME Inv, RunOut
  PROVE  Inv'
BY CallEndKeeps DEF RunOut, Fail

(***************************************************************************)
(* Removing white space and comments keeps the invariant, ...              *)
(***************************************************************************)
LEMMA TrimKeeps ==
  ASSUME Inv, TrimComment \/ TrimSpace \/ TrimEnd
  PROVE  Inv'
<1>1. call = "trim" /\ phase \in {"called", "spaces"} /\ UNCHANGED Counters /\ Given
  BY DEF TrimComment, TrimSpace, TrimEnd, Inv
<1>2. Last = Len(text) + 1 /\ Last \in Nat /\ Len(text) \in Nat /\ start = 2 /\ start \in Nat
  <2>1. call # "item"
    BY <1>1
  <2>2. start = 2
    BY <1>1, <2>1, Zenon DEF Given
  <2> QED
    BY <1>1, <2>2, LastType
<1>3. first \in Nat /\ first >= start /\ first <= Last /\ first >= 1
  <2>1. first \in start .. (2 * Len(text) + 4) /\ first <= Last
    BY <1>1 DEF Inv, Cursor
  <2> QED
    BY <1>2, <2>1
<1>4. /\ prim' = prim /\ sec' = sec /\ cnt' = cnt
      /\ prim \in 0 .. Len(text) /\ sec \in -Len(text) .. Len(text) /\ cnt \in -Len(text) .. Len(text)
      /\ phase = "called" => prim = 1 /\ sec = 0 /\ cnt = 0
  BY <1>1 DEF Counters, Inv, Counted
<1>5. ASSUME NEW p \in Nat, p >= first, p <= Last + 2, first' = p, UNCHANGED given,
             phase' \in {"called", "spaces", "done", "astray"},
             phase' \in {"called", "spaces"} => p <= Last, phase' = "called" => phase = "called",
             phase' = "done" /\ Checked => p <= Last
      PROVE  Inv'
  <2>1. Given' /\ Last' = Last /\ Checked' = Checked /\ Len(text') = Len(text) /\ call' = call /\ bound' = bound
        /\ start' = start /\ exec' = exec
    BY <1>1, <1>5, GivenKept DEF given
  <2>2. p \in start .. (2 * Len(text) + 4)
    BY <1>2, <1>3, <1>5
  <2>3. Cursor'
    BY <1>1, <1>5, <2>1, <2>2 DEF Cursor
  <2>4. Counted'
    BY <1>4, <1>5, <2>1 DEF Counted
  <2> QED
    BY <2>1, <2>3, <2>4 DEF Inv
<1>6. CASE TrimComment
  <2> DEFINE p == BehindComment(first)
  <2>1. p \in first .. (Last + 2) /\ (Checked => p <= Last)
    BY <1>1, <1>3, <1>6, BehindCommentStays DEF TrimComment
  <2>2. Move(p) /\ phase = "called"
    BY <1>6 DEF TrimComment
  <2> HIDE DEF p
  <2>3. p \in Nat /\ p >= first /\ p <= Last + 2
    BY <1>2, <1>3, <2>1
  <2>4. first' = p /\ UNCHANGED given /\ phase' = IF bound # "range" /\ p > Last THEN "astray" ELSE "called"
    BY <2>2 DEF Move
  <2>5. bound = "range" => Checked
    BY DEF Checked
  <2>6. phase' = "called" => p <= Last
    <3>1. ~ (p > Last) => p <= Last
      BY <1>2, <2>3
    <3> QED
      BY <2>1, <2>4, <2>5, <3>1
  <2> QED
    BY <1>5, <2>2, <2>3, <2>4, <2>6
<1>7. CASE TrimSpace
  <2>1. first' = first + 1 /\ UNCHANGED given /\ phase' \in {phase, "spaces"} /\ At(text, first) \in Space
    BY <1>7 DEF TrimSpace
  <2>2. At(text, first) # NUL
    BY <2>1 DEF Space, NUL
  <2>3. first <= Len(text)
    BY <1>1, <1>3, <2>2, InText
  <2>4. first + 1 \in Nat /\ first + 1 >= first /\ first + 1 <= Last + 2 /\ first + 1 <= Last
    BY <1>2, <1>3, <2>3
  <2> QED
    BY <1>1, <1>5, <2>1, <2>4
<1>8. CASE TrimEnd
  <2>1. first' = first /\ UNCHANGED given /\ phase' = "done"
    BY <1>8 DEF TrimEnd, Return
  <2>2. first >= first /\ first <= Last + 2
    BY <1>2, <1>3
  <2> QED
    BY <1>3, <1>5, <2>1, <2>2
<1> QED
  BY <1>6, <1>7, <1>8

(***************************************************************************)
(* ... as does moving to the next of some characters, ...                  *)
(***************************************************************************)
LEMMA NextKeeps ==
  ASSUME Inv, NextComment \/ NextOther \/ NextFound \/ NextMissing
  PROVE  Inv'
<1>1. call = "next" /\ phase = "called" /\ UNCHANGED Counters /\ Given
  BY DEF NextComment, NextOther, NextFound, NextMissing, Inv
<1>2. Last = Len(text) + 1 /\ Last \in Nat /\ Len(text) \in Nat /\ start = 2 /\ start \in Nat
  BY <1>1, LastType DEF Given
<1>3. first \in Nat /\ first >= start /\ first <= Last /\ first >= 1
  <2>1. first \in start .. (2 * Len(text) + 4) /\ first <= Last
    BY <1>1 DEF Inv, Cursor
  <2> QED
    BY <1>2, <2>1
<1>4. /\ prim' = prim /\ sec' = sec /\ cnt' = cnt
      /\ prim \in 0 .. Len(text) /\ sec \in -Len(text) .. Len(text) /\ cnt \in -Len(text) .. Len(text)
      /\ prim = 1 /\ sec = 0 /\ cnt = 0
  BY <1>1 DEF Counters, Inv, Counted
<1>5. ASSUME NEW p \in Nat, p >= first, p <= Last + 2, first' = p, UNCHANGED given,
             phase' \in {"called", "done", "astray", "failed"},
             phase' = "called" => p <= Last, phase' = "done" /\ Checked => p <= Last
      PROVE  Inv'
  <2>1. Given' /\ Last' = Last /\ Checked' = Checked /\ Len(text') = Len(text) /\ call' = call /\ bound' = bound
        /\ start' = start /\ exec' = exec
    BY <1>1, <1>5, GivenKept DEF given
  <2>2. p \in start .. (2 * Len(text) + 4)
    BY <1>2, <1>3, <1>5
  <2>3. Cursor'
    BY <1>1, <1>5, <2>1, <2>2 DEF Cursor
  <2>4. Counted'
    BY <1>4, <1>5, <2>1 DEF Counted
  <2> QED
    BY <2>1, <2>3, <2>4 DEF Inv
<1>6. CASE NextComment
  <2> DEFINE p == BehindComment(first)
  <2>1. p \in first .. (Last + 2) /\ (Checked => p <= Last)
    BY <1>1, <1>3, <1>6, BehindCommentStays DEF NextComment
  <2>2. Move(p) /\ phase = "called"
    BY <1>6 DEF NextComment
  <2> HIDE DEF p
  <2>3. p \in Nat /\ p >= first /\ p <= Last + 2
    BY <1>2, <1>3, <2>1
  <2>4. first' = p /\ UNCHANGED given /\ phase' = IF bound # "range" /\ p > Last THEN "astray" ELSE "called"
    BY <2>2 DEF Move
  <2>5. bound = "range" => Checked
    BY DEF Checked
  <2>6. phase' = "called" => p <= Last
    <3>1. ~ (p > Last) => p <= Last
      BY <1>2, <2>3
    <3> QED
      BY <2>1, <2>4, <2>5, <3>1
  <2> QED
    BY <1>5, <2>3, <2>4, <2>6
<1>7. CASE NextOther
  <2>1. first' = first + 1 /\ UNCHANGED given /\ phase' = IF first >= Last THEN "astray" ELSE "called"
    BY <1>1, <1>7 DEF NextOther
  <2>2. first + 1 \in Nat /\ first + 1 >= first /\ first + 1 <= Last + 2 /\ (~ (first >= Last) => first + 1 <= Last)
    BY <1>2, <1>3
  <2> QED
    BY <1>5, <2>1, <2>2
<1>8. CASE NextFound \/ NextMissing
  <2>1. first' = first /\ UNCHANGED given /\ phase' \in {"done", "failed"}
    BY <1>8 DEF NextFound, NextMissing, Return, Fail
  <2>2. first >= first /\ first <= Last + 2
    BY <1>2, <1>3
  <2> QED
    BY <1>3, <1>5, <2>1, <2>2
<1> QED
  BY <1>6, <1>7, <1>8

(***************************************************************************)
(* ... and skipping a string.                                              *)
(***************************************************************************)
LEMMA SkipStringKeeps ==
  ASSUME Inv, SkipString
  PROVE  Inv'
<1>1. call = "string" /\ phase = "called" /\ prim' = prim /\ sec' = sec /\ Given
  BY DEF SkipString, Inv
<1>2. Last = Len(text) + 1 /\ Last \in Nat /\ Len(text) \in Nat \ {0} /\ start = 2 /\ start \in Nat
  <2>1. call # "item"
    BY <1>1
  <2>2. start = 2
    BY <1>1, <2>1, Zenon DEF Given
  <2> QED
    BY <1>1, <2>2, LastType
<1>3. first = start
  BY <1>1 DEF Inv, Cursor
<1> DEFINE found == Search(exec, text, first, Last, bound)
<1>4. first \in Nat /\ first >= 1 /\ first <= Last
  BY <1>2, <1>3
<1>5. Bounded(found, first)
  BY <1>1, <1>4, SearchBounds
<1>6. /\ IF At(text, found.end) = "\"" THEN Return(found.end + 1)
         ELSE IF bound # "range" /\ found.end > Last THEN Move(found.end)
         ELSE Fail
      /\ cnt' = found.escape
  BY <1>1 DEF SkipString
<1> HIDE DEF found
<1>7. found.end \in {0} \cup (first .. (Len(text) + 3)) /\ found.escape \in -Len(text) .. Len(text)
  BY <1>5 DEF Bounded
<1>8. /\ prim' \in 0 .. Len(text) /\ sec' \in -Len(text) .. Len(text) /\ cnt' \in -Len(text) .. Len(text)
  BY <1>1, <1>6, <1>7 DEF Inv, Counted
<1>9. CASE At(text, found.end) = "\""
  <2>1. UNCHANGED given /\ first' = found.end + 1 /\ phase' = "done"
    BY <1>6, <1>9 DEF Return
  <2>2. found.end \in 1 .. Len(text)
    <3>1. "\"" # NUL
      BY DEF NUL
    <3> QED
      BY <1>9, <3>1, Zenon DEF At
  <2>3. found.end >= first
    BY <1>7, <2>2
  <2>4. found.end + 1 \in start .. (2 * Len(text) + 4) /\ found.end + 1 <= Last
    BY <1>2, <1>3, <2>2, <2>3
  <2> QED
    BY <1>8, <2>1, <2>4, EndKeeps
<1>10. CASE At(text, found.end) # "\"" /\ bound # "range" /\ found.end > Last
  <2>1. UNCHANGED given /\ first' = found.end /\ phase' = "astray"
    BY <1>6, <1>10 DEF Move
  <2>2. found.end \in start .. (2 * Len(text) + 4)
    <3>1. found.end \in first .. (Len(text) + 3)
      <4>1. found.end > Last
        BY <1>10
      <4> QED
        BY <1>2, <1>7, <4>1
    <3> QED
      BY <1>2, <1>3, <3>1
  <2> QED
    BY <1>8, <2>1, <2>2, EndKeeps
<1>11. CASE At(text, found.end) # "\"" /\ ~ (bound # "range" /\ found.end > Last)
  <2>1. UNCHANGED given /\ first' = first /\ phase' = "failed"
    BY <1>6, <1>11, Zenon DEF Fail
  <2>2. first \in start .. (2 * Len(text) + 4)
    BY <1>2, <1>3
  <2> QED
    BY <1>8, <2>1, <2>2, EndKeeps
<1> QED
  BY <1>9, <1>10, <1>11

(***************************************************************************)
(* Where nothing happens the invariant is kept.                            *)
(***************************************************************************)
LEMMA InvStutter ==
  ASSUME Inv, UNCHANGED vars
  PROVE  Inv'
<1>1. Given' /\ Last' = Last /\ Checked' = Checked /\ Len(text') = Len(text) /\ call' = call /\ bound' = bound
      /\ start' = start /\ exec' = exec
  BY GivenKept DEF vars, given, Inv
<1>2. Cursor'
  BY <1>1 DEF vars, Cursor, Inv
<1>3. Counted'
  BY <1>1 DEF vars, Counted, Inv
<1> QED
  BY <1>1, <1>2, <1>3 DEF Inv

(***************************************************************************)
(* Wherever a call has come to, the cursor is behind where it began, in    *)
(* front of the end or not further behind it than one escape or comment    *)
(* reaches, and a bracket or comma has been counted for no more characters *)
(* than were passed. The loops of daw_json_parse_policy.h read one         *)
(* character or two behind the cursor without a check of their own; what   *)
(* each adds to the cursor is bounded here for every text.                 *)
(***************************************************************************)
THEOREM InvHolds == Spec => []Inv
<1>1. Init => Inv
  BY InvInit
<1>2. Inv /\ [Next]_vars => Inv'
  BY InvStutter, TrimKeeps, SkipStringKeeps, NextKeeps, EnterKeeps, EscapeKeeps, StringKeeps, CommaKeeps,
     PrimLeftKeeps, PrimRightKeeps, SecKeeps, SlashCommentKeeps, HashCommentKeeps, PassKeeps, RunOutKeeps DEF Next
<1> QED
  BY <1>1, <1>2, PTL DEF Spec

(***************************************************************************)
(* A checked call that returns leaves the cursor in the text or at its     *)
(* end, for every text, comment policy and way to search strings, however  *)
(* the text is broken.                                                     *)
(***************************************************************************)
THEOREM CursorCorrect == Spec => []EndsInText
<1>1. Inv => EndsInText
  <2> SUFFICES ASSUME Inv PROVE EndsInText
    OBVIOUS
  <2>1. Last \in Nat /\ Len(text) \in Nat /\ start \in {1, 2}
    BY LastType DEF Inv, Given
  <2>2. /\ first \in start .. (2 * Len(text) + 4) /\ (phase = "done" /\ Checked => first <= Last)
        /\ phase \in {"called", "spaces", "inside", "done", "failed", "nothing", "astray"}
        /\ prim \in 0 .. Len(text) /\ sec \in -Len(text) .. Len(text) /\ cnt \in -Len(text) .. Len(text)
    BY DEF Inv, Cursor, Counted
  <2>3. first \in 1 .. (2 * Len(text) + 4) /\ (first <= Last => first \in start .. Last)
    BY <2>1, <2>2
  <2> QED
    BY <2>2, <2>3 DEF EndsInText, TypeOK
<1> QED
  BY <1>1, InvHolds, PTL


-----------------------------------------------------------------------------
(* What the characters of a text are, and what is open behind them.        *)

(* What is in front of a character, and what is open there.                *)
Before(mode, p) == IF p = 1 THEN "code" ELSE mode[p - 1]

(* What a character can be.                                                *)
Modes == {"code", "line", "slash", "star", "block", "endblock", "open", "in", "escaped", "close"}

(***************************************************************************)
(* What a character is follows from what the one in front of it is. Mode   *)
(* is defined by a recursive function; this is the one fact about it the   *)
(* proofs need.                                                            *)
(***************************************************************************)
LEMMA ModeIs ==
  ASSUME NEW t, Len(t) \in Nat, NEW c
  PROVE  /\ Mode(t, c) \in Seq(Modes) /\ Len(Mode(t, c)) = Len(t)
         /\ \A p \in 1 .. Len(t) : Mode(t, c)[p] = ModeAfter(t, c, Before(Mode(t, c), p), p)
<1> DEFINE n == Len(t)
           step == [p \in 1 .. n |-> [s \in Seq(Modes) |-> ModeAfter(t, c, IF p = 1 THEN "code" ELSE s[p - 1], p)]]
<1>1. \A b, p : ModeAfter(t, c, b, p) \in Modes
  <2>1. \A p : Fresh(t, c, p) \in Modes
    BY DEF Fresh, Modes
  <2> QED
    BY <2>1 DEF ModeAfter, Modes
<1>2. Extends(step, n, Modes)
  BY <1>1 DEF Extends
<1>3. PICK g : IsHistory(g, n, Modes, step)
  <2> HIDE DEF step
  <2> QED
    BY <1>2, HistoryExists
<1>4. g = [p \in 0 .. n |-> IF p = 0 THEN <<>> ELSE
             Append(g[p - 1], ModeAfter(t, c, IF p = 1 THEN "code" ELSE g[p - 1][p - 1], p))]
  <2>1. \A p \in 1 .. n : g[p] = Append(g[p - 1], ModeAfter(t, c, IF p = 1 THEN "code" ELSE g[p - 1][p - 1], p))
    BY <1>3 DEF IsHistory
  <2>2. \A p \in 0 .. n : p = 0 \/ p \in 1 .. n
    OBVIOUS
  <2>3. \A p \in 0 .. n : g[p] = IF p = 0 THEN <<>> ELSE
             Append(g[p - 1], ModeAfter(t, c, IF p = 1 THEN "code" ELSE g[p - 1][p - 1], p))
    BY <1>3, <2>1, <2>2, Zenon DEF IsHistory
  <2> QED
    BY <1>3, <2>3, Zenon DEF IsHistory
<1> DEFINE read == CHOOSE f : f = [p \in 0 .. Len(t) |-> IF p = 0 THEN <<>> ELSE
             Append(f[p - 1], ModeAfter(t, c, IF p = 1 THEN "code" ELSE f[p - 1][p - 1], p))]
<1>5. read = [p \in 0 .. n |-> IF p = 0 THEN <<>> ELSE
             Append(read[p - 1], ModeAfter(t, c, IF p = 1 THEN "code" ELSE read[p - 1][p - 1], p))]
  BY <1>4, Zenon
<1>6. Mode(t, c) = read[n]
  BY Zenon DEF Mode
<1> HIDE DEF read, step
<1>7. read[0] = <<>>
  <2>1. 0 \in 0 .. n
    OBVIOUS
  <2> QED
    BY <1>5, <2>1, Zenon
<1>8. \A p \in 1 .. n : read[p] = Append(read[p - 1], ModeAfter(t, c, IF p = 1 THEN "code" ELSE read[p - 1][p - 1], p))
  <2>1. \A p \in 1 .. n : p \in 0 .. n /\ p # 0
    OBVIOUS
  <2> QED
    BY <1>5, <2>1, Zenon
<1>9. \A p \in 1 .. n : read[p - 1] \in Seq(Modes) /\ Len(read[p - 1]) = p - 1 => \E x \in Modes : read[p] = Append(read[p - 1], x)
  BY <1>1, <1>8
<1>10. /\ \A p \in 0 .. n : read[p] \in Seq(Modes) /\ Len(read[p]) = p
       /\ \A k \in 0 .. n : \A p \in 1 .. k : read[k][p] = read[p][p]
  <2>1. Grows(read, n, Modes)
    BY <1>7, <1>9 DEF Grows
  <2>2. n \in Nat
    OBVIOUS
  <2> HIDE DEF n
  <2> QED
    BY <2>1, <2>2, Appends DEF Grown
<1>11. ASSUME NEW p \in 1 .. n
       PROVE  read[n][p] = ModeAfter(t, c, Before(read[n], p), p)
  <2>1. n \in 0 .. n /\ p - 1 \in 0 .. n /\ p \in Nat
    OBVIOUS
  <2>2. read[n][p] = read[p][p]
    BY <1>10, <2>1
  <2>3. read[p - 1] \in Seq(Modes) /\ Len(read[p - 1]) = p - 1
    BY <1>10, <2>1
  <2>4. read[p] = Append(read[p - 1], ModeAfter(t, c, IF p = 1 THEN "code" ELSE read[p - 1][p - 1], p))
    BY <1>8
  <2>5. read[p][p] = ModeAfter(t, c, IF p = 1 THEN "code" ELSE read[p - 1][p - 1], p)
    BY <2>3, <2>4
  <2>6. p # 1 => read[p - 1][p - 1] = read[n][p - 1]
    <3>1. p # 1 => p - 1 \in 1 .. n /\ p - 1 \in 1 .. (p - 1)
      OBVIOUS
    <3> QED
      BY <1>10, <2>1, <3>1
  <2> QED
    BY <2>2, <2>5, <2>6, Zenon DEF Before
<1>12. n \in 0 .. n
  OBVIOUS
<1> QED
  BY <1>6, <1>10, <1>11, <1>12

(* What can be open behind a character ...                                 *)
Stacks == Seq(Left \cup {"bad"})
(* ... and what is open in front of it.                                    *)
Open(open, p) == IF p = 1 THEN <<>> ELSE open[p - 1]

(***************************************************************************)
(* The brackets that are open, or the sign that there is a wrong one, are  *)
(* a sequence of these ...                                                 *)
(***************************************************************************)
LEMMA BracketsType ==
  ASSUME NEW t, NEW mode, NEW before \in Stacks, NEW p
  PROVE  BracketsAfter(t, mode, before, p) \in Stacks
<1> DEFINE X == Left \cup {"bad"}
<1>1. <<"bad">> \in Seq(X)
  BY DEF Left
<1>2. ASSUME t[p] \in Left PROVE <<t[p]>> \o before \in Seq(X)
  BY <1>2 DEF Stacks
<1>3. ASSUME before # <<>> PROVE Tail(before) \in Seq(X)
  BY <1>3 DEF Stacks
<1>4. Left \cap Right = {} /\ "\\" \notin Left /\ "\\" \notin Right
  BY DEF Left, Right
<1> QED
  BY <1>1, <1>2, <1>3, <1>4, Zenon DEF BracketsAfter, Stacks

(***************************************************************************)
(* ... and those behind a character follow from those in front of it.      *)
(***************************************************************************)
LEMMA BracketsIs ==
  ASSUME NEW t, Len(t) \in Nat, NEW c
  PROVE  /\ Brackets(t, c) \in Seq(Stacks) /\ Len(Brackets(t, c)) = Len(t)
         /\ \A p \in 1 .. Len(t) : Brackets(t, c)[p] = BracketsAfter(t, Mode(t, c), Open(Brackets(t, c), p), p)
<1> DEFINE n == Len(t)
           mode == Mode(t, c)
           step == [p \in 1 .. n |-> [s \in Seq(Stacks) |-> BracketsAfter(t, mode, IF p = 1 THEN <<>> ELSE s[p - 1], p)]]
<1>1. ASSUME NEW p \in 1 .. n, NEW s \in Seq(Stacks), Len(s) = p - 1
      PROVE  BracketsAfter(t, mode, IF p = 1 THEN <<>> ELSE s[p - 1], p) \in Stacks
  <2>1. <<>> \in Stacks
    BY DEF Stacks
  <2>2. p # 1 => s[p - 1] \in Stacks
    <3>1. p # 1 => p - 1 \in 1 .. Len(s)
      BY <1>1
    <3> QED
      BY <3>1
  <2>3. (IF p = 1 THEN <<>> ELSE s[p - 1]) \in Stacks
    BY <2>1, <2>2, Zenon
  <2> HIDE DEF mode
  <2> QED
    BY <2>3, BracketsType
<1>2. Extends(step, n, Stacks)
  BY <1>1 DEF Extends
<1>3. PICK g : IsHistory(g, n, Stacks, step)
  <2> HIDE DEF step
  <2> QED
    BY <1>2, HistoryExists
<1> HIDE DEF mode
<1>4. g = [p \in 0 .. n |-> IF p = 0 THEN <<>> ELSE
             Append(g[p - 1], BracketsAfter(t, mode, IF p = 1 THEN <<>> ELSE g[p - 1][p - 1], p))]
  <2>1. \A p \in 1 .. n : g[p] = Append(g[p - 1], BracketsAfter(t, mode, IF p = 1 THEN <<>> ELSE g[p - 1][p - 1], p))
    BY <1>3 DEF IsHistory
  <2>2. \A p \in 0 .. n : p = 0 \/ p \in 1 .. n
    OBVIOUS
  <2>3. \A p \in 0 .. n : g[p] = IF p = 0 THEN <<>> ELSE
             Append(g[p - 1], BracketsAfter(t, mode, IF p = 1 THEN <<>> ELSE g[p - 1][p - 1], p))
    BY <1>3, <2>1, <2>2, Zenon DEF IsHistory
  <2> QED
    BY <1>3, <2>3, Zenon DEF IsHistory
<1> DEFINE read == CHOOSE f : f = [p \in 0 .. Len(t) |-> IF p = 0 THEN <<>> ELSE
             Append(f[p - 1], BracketsAfter(t, Mode(t, c), IF p = 1 THEN <<>> ELSE f[p - 1][p - 1], p))]
<1>5. read = [p \in 0 .. n |-> IF p = 0 THEN <<>> ELSE
             Append(read[p - 1], BracketsAfter(t, mode, IF p = 1 THEN <<>> ELSE read[p - 1][p - 1], p))]
  BY <1>4, Zenon DEF mode
<1>6. Brackets(t, c) = read[n]
  BY Zenon DEF Brackets
<1> HIDE DEF read, step
<1>7. read[0] = <<>>
  <2>1. 0 \in 0 .. n
    OBVIOUS
  <2> QED
    BY <1>5, <2>1, Zenon
<1>8. \A p \in 1 .. n : read[p] = Append(read[p - 1], BracketsAfter(t, mode, IF p = 1 THEN <<>> ELSE read[p - 1][p - 1], p))
  <2>1. \A p \in 1 .. n : p \in 0 .. n /\ p # 0
    OBVIOUS
  <2> QED
    BY <1>5, <2>1, Zenon
<1>9. \A p \in 1 .. n : read[p - 1] \in Seq(Stacks) /\ Len(read[p - 1]) = p - 1 => \E x \in Stacks : read[p] = Append(read[p - 1], x)
  BY <1>1, <1>8, Zenon
<1>10. /\ \A p \in 0 .. n : read[p] \in Seq(Stacks) /\ Len(read[p]) = p
       /\ \A k \in 0 .. n : \A p \in 1 .. k : read[k][p] = read[p][p]
  <2>1. Grows(read, n, Stacks)
    BY <1>7, <1>9 DEF Grows
  <2>2. n \in Nat
    OBVIOUS
  <2> HIDE DEF n
  <2> QED
    BY <2>1, <2>2, Appends DEF Grown
<1>11. ASSUME NEW p \in 1 .. n
       PROVE  read[n][p] = BracketsAfter(t, mode, Open(read[n], p), p)
  <2>1. n \in 0 .. n /\ p - 1 \in 0 .. n /\ p \in Nat
    OBVIOUS
  <2>2. read[n][p] = read[p][p]
    BY <1>10, <2>1
  <2>3. read[p - 1] \in Seq(Stacks) /\ Len(read[p - 1]) = p - 1
    BY <1>10, <2>1
  <2>4. read[p] = Append(read[p - 1], BracketsAfter(t, mode, IF p = 1 THEN <<>> ELSE read[p - 1][p - 1], p))
    BY <1>8
  <2>5. read[p][p] = BracketsAfter(t, mode, IF p = 1 THEN <<>> ELSE read[p - 1][p - 1], p)
    BY <2>3, <2>4
  <2>6. p # 1 => read[p - 1][p - 1] = read[n][p - 1]
    <3>1. p # 1 => p - 1 \in 1 .. n /\ p - 1 \in 1 .. (p - 1)
      OBVIOUS
    <3> QED
      BY <1>10, <2>1, <3>1
  <2> QED
    BY <2>2, <2>5, <2>6, Zenon DEF Open
<1>12. n \in 0 .. n
  OBVIOUS
<1> QED
  BY <1>6, <1>10, <1>11, <1>12 DEF mode

(***************************************************************************)
(* A bracket that continues nothing is code.                               *)
(***************************************************************************)
LEMMA FreshBracket ==
  ASSUME NEW t, NEW c, NEW p, t[p] \in Left
  PROVE  Fresh(t, c, p) = "code"
BY DEF Fresh, Left

(***************************************************************************)
(* The end of an item is the first place behind which nothing is open.     *)
(***************************************************************************)
LEMMA ItemEndIs ==
  ASSUME NEW t, Len(t) \in Nat, NEW c, ItemEnd(t, c) # 0
  PROVE  /\ ItemEnd(t, c) \in 1 .. Len(t) /\ Brackets(t, c)[ItemEnd(t, c)] = <<>>
         /\ \A p \in 1 .. Len(t) : Brackets(t, c)[p] = <<>> => ItemEnd(t, c) <= p
         /\ t[1] \in Left
<1> DEFINE open == Brackets(t, c)
           ends == {p \in 1 .. Len(t) : open[p] = <<>>}
<1>1. ItemEnd(t, c) = IF ends = {} \/ t[1] \notin Left THEN 0 ELSE CHOOSE p \in ends : \A q \in ends : p <= q
  BY DEF ItemEnd
<1>2. ends # {} /\ t[1] \in Left
  BY <1>1
<1>3. ends \in SUBSET Nat
  OBVIOUS
<1>4. \E p \in ends : \A q \in ends : p <= q
  <2> HIDE DEF ends
  <2> QED
    BY <1>2, <1>3, LeastExists
<1>5. ItemEnd(t, c) \in ends /\ \A q \in ends : ItemEnd(t, c) <= q
  <2> HIDE DEF ends
  <2> QED
    BY <1>1, <1>2, <1>4, Zenon
<1> QED
  BY <1>2, <1>5

(***************************************************************************)
(* Behind its first character the item is open.                            *)
(***************************************************************************)
LEMMA FirstIsOpen ==
  ASSUME NEW t, Len(t) \in Nat \ {0}, NEW c, t[1] \in Left
  PROVE  Mode(t, c)[1] = "code" /\ Brackets(t, c)[1] = <<t[1]>>
<1>1. 1 \in 1 .. Len(t)
  OBVIOUS
<1>2. Mode(t, c)[1] = ModeAfter(t, c, "code", 1)
  BY <1>1, ModeIs DEF Before
<1>3. Mode(t, c)[1] = "code"
  BY <1>2, FreshBracket DEF ModeAfter, InString
<1>4. Brackets(t, c)[1] = BracketsAfter(t, Mode(t, c), <<>>, 1)
  BY <1>1, BracketsIs DEF Open
<1>5. <<>> # <<"bad">> /\ <<t[1]>> \o <<>> = <<t[1]>>
  OBVIOUS
<1>6. t[1] \notin Right /\ t[1] # "\\"
  BY DEF Left, Right
<1>7. BracketsAfter(t, Mode(t, c), <<>>, 1) = <<t[1]>> \o <<>>
  BY <1>3, <1>5, <1>6, Zenon DEF BracketsAfter
<1> QED
  BY <1>3, <1>4, <1>5, <1>7, Zenon

(***************************************************************************)
(* What a character is and what is open behind it, from the second on.     *)
(***************************************************************************)
LEMMA OpenIs ==
  ASSUME NEW t, Len(t) \in Nat, NEW c, NEW p \in 2 .. Len(t)
  PROVE  /\ Brackets(t, c)[p] = BracketsAfter(t, Mode(t, c), Brackets(t, c)[p - 1], p)
         /\ Mode(t, c)[p] = ModeAfter(t, c, Mode(t, c)[p - 1], p)
         /\ Brackets(t, c)[p - 1] \in Stacks
<1>1. p \in 1 .. Len(t) /\ p # 1 /\ p - 1 \in 1 .. Len(t)
  OBVIOUS
<1>2. Brackets(t, c)[p] = BracketsAfter(t, Mode(t, c), Open(Brackets(t, c), p), p)
  BY <1>1, BracketsIs
<1>3. Mode(t, c)[p] = ModeAfter(t, c, Before(Mode(t, c), p), p)
  BY <1>1, ModeIs
<1>4. Brackets(t, c)[p - 1] \in Stacks
  BY <1>1, BracketsIs
<1> QED
  BY <1>1, <1>2, <1>3, <1>4, Zenon DEF Open, Before

(***************************************************************************)
(* After a wrong bracket nothing is closed any more.                       *)
(***************************************************************************)
LEMMA BadStays ==
  ASSUME NEW t, Len(t) \in Nat, NEW c, NEW p \in 1 .. Len(t), Brackets(t, c)[p] = <<"bad">>
  PROVE  \A q \in p .. Len(t) : Brackets(t, c)[q] = <<"bad">>
<1> DEFINE Bad == {q \in p .. Len(t) : Brackets(t, c)[q] = <<"bad">>}
<1>1. p \in Bad
  OBVIOUS
<1>2. ASSUME NEW q \in (p + 1) .. Len(t), q - 1 \in Bad
      PROVE  q \in Bad
  <2>1. q \in 2 .. Len(t) /\ q \in p .. Len(t)
    OBVIOUS
  <2>2. Brackets(t, c)[q] = BracketsAfter(t, Mode(t, c), Brackets(t, c)[q - 1], q)
    BY <2>1, OpenIs
  <2>3. Brackets(t, c)[q - 1] = <<"bad">>
    BY <1>2
  <2>4. Brackets(t, c)[q] = <<"bad">>
    BY <2>2, <2>3, Zenon DEF BracketsAfter
  <2> QED
    BY <2>1, <2>4
<1>3. p \in Nat
  OBVIOUS
<1> HIDE DEF Bad
<1>4. \A q \in p .. Len(t) : q \in Bad
  BY <1>1, <1>2, <1>3, UpFrom
<1> QED
  BY <1>4 DEF Bad

(* Brackets that are open in an item that b opens.                         *)
Nested(s, b) == s \in Seq(Left) /\ s # <<>> /\ s[Len(s)] = b

(* What a character does to the brackets that are open.                    *)
Does(t, mode, s, p, after) ==
  \/ mode[p] # "code" /\ after = s
  \/ mode[p] = "code" /\ t[p] \in Left /\ after = <<t[p]>> \o s
  \/ mode[p] = "code" /\ t[p] \in Right /\ t[p] = Partner(s[1]) /\ after = Tail(s)
  \/ mode[p] = "code" /\ t[p] \notin Left \cup Right \cup {"\\"} /\ after = s

(***************************************************************************)
(* What is open in an item are brackets.                                   *)
(***************************************************************************)
LEMMA NestedIsNotBad ==
  ASSUME NEW s, NEW b, Nested(s, b)
  PROVE  s # <<"bad">> /\ s[1] \in Left /\ Len(s) \in Nat \ {0} /\ s \in Seq(Left)
<1>1. s \in Seq(Left) /\ s # <<>>
  BY DEF Nested
<1>2. Len(s) \in Nat \ {0} /\ s[1] \in Left
  BY <1>1
<1>3. <<"bad">>[1] = "bad" /\ "bad" \notin Left
  BY DEF Left
<1>4. s # <<"bad">>
  BY <1>2, <1>3, Zenon
<1> QED
  BY <1>1, <1>2, <1>4, Zenon

(***************************************************************************)
(* As long as no bracket is wrong, a character opens, closes the           *)
(* innermost, or changes nothing.                                          *)
(***************************************************************************)
LEMMA Doing ==
  ASSUME NEW t, NEW mode, NEW s, NEW b, Nested(s, b), NEW p, BracketsAfter(t, mode, s, p) # <<"bad">>
  PROVE  Does(t, mode, s, p, BracketsAfter(t, mode, s, p))
<1>1. s # <<"bad">> /\ s # <<>>
  BY NestedIsNotBad DEF Nested
<1>2. Left \cap Right = {} /\ "\\" \notin Left /\ "\\" \notin Right
  BY DEF Left, Right
<1>3. CASE mode[p] # "code"
  BY <1>3, Zenon DEF BracketsAfter, Does
<1>4. CASE mode[p] = "code" /\ t[p] \in Left
  BY <1>1, <1>2, <1>4, Zenon DEF BracketsAfter, Does
<1>5. CASE mode[p] = "code" /\ t[p] \in Right
  BY <1>1, <1>2, <1>5, Zenon DEF BracketsAfter, Does
<1>6. CASE mode[p] = "code" /\ t[p] \notin Left \cup Right
  BY <1>1, <1>2, <1>6, Zenon DEF BracketsAfter, Does
<1> QED
  BY <1>3, <1>4, <1>5, <1>6, Zenon

(***************************************************************************)
(* The bracket that opens the item stays open until nothing is.            *)
(***************************************************************************)
LEMMA DoneNested ==
  ASSUME NEW t, NEW mode, NEW s, NEW b, Nested(s, b), NEW p, NEW after, Does(t, mode, s, p, after), after # <<>>
  PROVE  Nested(after, b)
<1>1. s \in Seq(Left) /\ s # <<>> /\ s[Len(s)] = b /\ Len(s) \in Nat \ {0}
  BY DEF Nested
<1>2. CASE after = s
  BY <1>2
<1>3. CASE t[p] \in Left /\ after = <<t[p]>> \o s
  <2>1. after \in Seq(Left) /\ Len(after) = Len(s) + 1 /\ after[Len(s) + 1] = s[Len(s)]
    BY <1>1, <1>3
  <2> QED
    BY <1>1, <2>1 DEF Nested
<1>4. CASE after = Tail(s)
  <2>1. after \in Seq(Left) /\ Len(after) = Len(s) - 1
    BY <1>1, <1>4
  <2>2. Len(after) # 0
    <3>1. \A u \in Seq(Left) : u # <<>> => Len(u) # 0
      OBVIOUS
    <3> QED
      BY <2>1, <3>1, Zenon
  <2>3. after[Len(s) - 1] = s[Len(s)]
    BY <1>1, <1>4, <2>1, <2>2
  <2> QED
    BY <1>1, <2>1, <2>3 DEF Nested
<1> QED
  BY <1>2, <1>3, <1>4, Zenon DEF Does

(***************************************************************************)
(* In front of the end of an item its bracket is open, and none has been   *)
(* wrong.                                                                  *)
(***************************************************************************)
LEMMA NestedInItem ==
  ASSUME NEW t, Len(t) \in Nat \ {0}, NEW c, ItemEnd(t, c) # 0
  PROVE  \A p \in 1 .. (ItemEnd(t, c) - 1) : Nested(Brackets(t, c)[p], t[1])
<1> DEFINE e == ItemEnd(t, c)
           S == {p \in 1 .. (e - 1) : Nested(Brackets(t, c)[p], t[1])}
<1>1. /\ e \in 1 .. Len(t) /\ Brackets(t, c)[e] = <<>> /\ t[1] \in Left
      /\ \A p \in 1 .. Len(t) : Brackets(t, c)[p] = <<>> => e <= p
  BY ItemEndIs
<1> HIDE DEF e
<1>2. e # 1 /\ 1 \in S
  <2>1. Brackets(t, c)[1] = <<t[1]>>
    BY <1>1, FirstIsOpen
  <2>2. <<t[1]>> # <<>> /\ <<t[1]>> \in Seq(Left) /\ Len(<<t[1]>>) = 1 /\ <<t[1]>>[1] = t[1]
    BY <1>1
  <2>3. e # 1
    BY <1>1, <2>1, <2>2
  <2>4. Nested(Brackets(t, c)[1], t[1])
    BY <2>1, <2>2, Zenon DEF Nested
  <2>5. 1 \in 1 .. (e - 1)
    BY <1>1, <2>3
  <2> QED
    BY <2>3, <2>4, <2>5
<1>3. ASSUME NEW p \in (1 + 1) .. (e - 1), p - 1 \in S
      PROVE  p \in S
  <2>1. p \in 2 .. Len(t) /\ p \in 1 .. (e - 1) /\ p \in 1 .. Len(t) /\ ~ (e <= p) /\ e \in p .. Len(t)
    BY <1>1
  <2>2. Brackets(t, c)[p] = BracketsAfter(t, Mode(t, c), Brackets(t, c)[p - 1], p)
    BY <2>1, OpenIs
  <2>3. Brackets(t, c)[p] # <<>>
    BY <1>1, <2>1
  <2>4. Brackets(t, c)[p] # <<"bad">>
    <3> SUFFICES ASSUME Brackets(t, c)[p] = <<"bad">> PROVE FALSE
      OBVIOUS
    <3>1. Brackets(t, c)[e] = <<"bad">>
      BY <2>1, BadStays
    <3> QED
      BY <1>1, <3>1
  <2>5. Nested(Brackets(t, c)[p - 1], t[1])
    BY <1>3
  <2>6. Does(t, Mode(t, c), Brackets(t, c)[p - 1], p, Brackets(t, c)[p])
    BY <2>2, <2>4, <2>5, Doing
  <2>7. Nested(Brackets(t, c)[p], t[1])
    BY <2>3, <2>5, <2>6, DoneNested
  <2> QED
    BY <2>1, <2>7
<1>4. e - 1 \in Nat /\ 1 \in Nat
  BY <1>1
<1> HIDE DEF S
<1>5. \A p \in 1 .. (e - 1) : p \in S
  BY <1>2, <1>3, <1>4, UpFrom
<1> QED
  BY <1>5 DEF S, e

(* Slashes belong to strings and to comments up to the end of a line.      *)
Slashes(t, c) == c = "cpp" => \A p \in 1 .. Len(t) : t[p] = "/" => Mode(t, c)[p] \in {"line"} \cup InString

(***************************************************************************)
(* What follows a character of a string, ...                               *)
(***************************************************************************)
LEMMA AfterString ==
  ASSUME NEW t, NEW c, NEW b, NEW p, b \in InString
  PROVE  /\ ModeAfter(t, c, b, p) \in {"in", "escaped", "close"}
         /\ (ModeAfter(t, c, b, p) = "escaped") <=> (b = "in" /\ t[p - 1] = "\\")
BY DEF ModeAfter, InString

(***************************************************************************)
(* ... code, ...                                                           *)
(***************************************************************************)
LEMMA AfterCode ==
  ASSUME NEW t, NEW c, NEW b, NEW p, b \in {"code", "close"}
  PROVE  ModeAfter(t, c, b, p) = Fresh(t, c, p)
BY DEF ModeAfter, InString

(***************************************************************************)
(* ... and a character of a comment up to the end of the line.             *)
(***************************************************************************)
LEMMA AfterLine ==
  ASSUME NEW t, NEW c, NEW p
  PROVE  ModeAfter(t, c, "line", p) = IF t[p - 1] = "\n" THEN Fresh(t, c, p) ELSE "line"
BY DEF ModeAfter, InString

(***************************************************************************)
(* What a character that continues nothing can be.                         *)
(***************************************************************************)
LEMMA FreshIs ==
  ASSUME NEW t, NEW c, NEW p
  PROVE  Fresh(t, c, p) \in {"open", "line", "slash", "code"}
BY DEF Fresh

(***************************************************************************)
(* In a string the quotes that are not escaped close it.                   *)
(***************************************************************************)
LEMMA InOrClose ==
  ASSUME NEW t, NEW c, NEW b, NEW p
  PROVE  /\ ModeAfter(t, c, b, p) = "close" => t[p] = "\""
         /\ ModeAfter(t, c, b, p) = "in" => t[p] # "\""
<1>1. Fresh(t, c, p) \notin {"in", "close"}
  BY FreshIs
<1>2. CASE b \in InString
  BY <1>2 DEF ModeAfter, InString
<1>3. CASE b \notin InString
  <2>1. ModeAfter(t, c, b, p) \notin {"close", "in"}
    BY <1>1, <1>3 DEF ModeAfter
  <2> QED
    BY <2>1
<1> QED
  BY <1>2, <1>3

(***************************************************************************)
(* What such a character is for.                                           *)
(***************************************************************************)
LEMMA FreshCases ==
  ASSUME NEW t, NEW c, NEW p
  PROVE  /\ Fresh(t, c, p) \in {"open", "line", "slash", "code"}
         /\ t[p] = "\"" <=> Fresh(t, c, p) = "open"
         /\ Fresh(t, c, p) = "line" => (c = "hash" /\ t[p] = "#") \/ (c = "cpp" /\ t[p] = "/" /\ At(t, p + 1) = "/")
         /\ Fresh(t, c, p) = "slash" => c = "cpp" /\ t[p] = "/"
         /\ c = "hash" /\ t[p] = "#" => Fresh(t, c, p) = "line"
BY DEF Fresh

(* What characters are where no comment is between stars.                  *)
SimpleModes == {"code", "line", "open", "in", "escaped", "close"}
(***************************************************************************)
(* Where slashes belong to strings and lines, no comment is between stars. *)
(***************************************************************************)
LEMMA ModesAreSimple ==
  ASSUME NEW t, Len(t) \in Nat, NEW c, Slashes(t, c)
  PROVE  \A p \in 1 .. Len(t) : Mode(t, c)[p] \in SimpleModes
<1> DEFINE S == {p \in 1 .. Len(t) : Mode(t, c)[p] \in SimpleModes}
<1>1. ASSUME NEW p \in 1 .. Len(t), NEW b \in SimpleModes, Mode(t, c)[p] = ModeAfter(t, c, b, p)
      PROVE  Mode(t, c)[p] \in SimpleModes
  <2>1. Fresh(t, c, p) \in SimpleModes \/ (Fresh(t, c, p) = "slash" /\ c = "cpp" /\ t[p] = "/")
    <3>1. Fresh(t, c, p) \in {"open", "line", "slash", "code"} /\ (Fresh(t, c, p) = "slash" => c = "cpp" /\ t[p] = "/")
      BY FreshCases, Zenon
    <3> QED
      BY <3>1 DEF SimpleModes
  <2>2. ModeAfter(t, c, b, p) \in {"in", "escaped", "close", "line", Fresh(t, c, p)}
    <3>1. b \in InString \/ b \in {"code", "close"} \/ b = "line"
      BY DEF SimpleModes, InString
    <3>2. CASE b \in InString
      BY <3>2, AfterString
    <3>3. CASE b \in {"code", "close"}
      BY <3>3, AfterCode
    <3>4. CASE b = "line"
      BY <3>4, AfterLine
    <3> QED
      BY <3>1, <3>2, <3>3, <3>4, Zenon
  <2>3. c = "cpp" /\ t[p] = "/" => Mode(t, c)[p] \in SimpleModes
    BY DEF Slashes, SimpleModes, InString
  <2> QED
    BY <1>1, <2>1, <2>2, <2>3 DEF SimpleModes
<1>2. CASE Len(t) = 0
  BY <1>2
<1>3. CASE Len(t) # 0
  <2>1. 1 \in S
    <3>1. 1 \in 1 .. Len(t) /\ "code" \in SimpleModes
      BY <1>3 DEF SimpleModes
    <3>2. Mode(t, c)[1] = ModeAfter(t, c, "code", 1)
      BY <3>1, ModeIs DEF Before
    <3> QED
      BY <1>1, <3>1, <3>2
  <2>2. ASSUME NEW p \in (1 + 1) .. Len(t), p - 1 \in S
        PROVE  p \in S
    <3>1. p \in 2 .. Len(t) /\ p \in 1 .. Len(t)
      OBVIOUS
    <3>2. Mode(t, c)[p] = ModeAfter(t, c, Mode(t, c)[p - 1], p)
      BY <3>1, OpenIs
    <3>3. Mode(t, c)[p - 1] \in SimpleModes
      BY <2>2
    <3> QED
      BY <1>1, <3>1, <3>2, <3>3
  <2>3. 1 \in Nat
    OBVIOUS
  <2> HIDE DEF S
  <2>4. \A p \in 1 .. Len(t) : p \in S
    BY <2>1, <2>2, <2>3, UpFrom
  <2> QED
    BY <2>4 DEF S
<1> QED
  BY <1>2, <1>3

(* A text that begins with an item, which ends at e.                       *)
IsItem(t, c, e) ==
  /\ Len(t) \in Nat \ {0} /\ e \in 2 .. Len(t) /\ Slashes(t, c)
  /\ Mode(t, c)[e] = "code" /\ Brackets(t, c)[e] = <<>>
  /\ \A p \in 1 .. (e - 1) : Nested(Brackets(t, c)[p], t[1])
  /\ \A p \in 1 .. Len(t) : t[p] # NUL

(***************************************************************************)
(* What Skipping calls the end of an item is the end of one.               *)
(***************************************************************************)
LEMMA ItemIs ==
  ASSUME NEW t, Len(t) \in Nat \ {0}, NEW c, ItemEnd(t, c) # 0, Slashes(t, c), \A p \in 1 .. Len(t) : t[p] # NUL
  PROVE  IsItem(t, c, ItemEnd(t, c))
<1> DEFINE e == ItemEnd(t, c)
<1>1. /\ e \in 1 .. Len(t) /\ Brackets(t, c)[e] = <<>> /\ t[1] \in Left
      /\ \A p \in 1 .. (e - 1) : Nested(Brackets(t, c)[p], t[1])
  BY ItemEndIs, NestedInItem
<1> HIDE DEF e
<1>2. e \in 2 .. Len(t)
  <2>1. Brackets(t, c)[1] # <<>>
    <3>1. <<t[1]>> # <<>>
      OBVIOUS
    <3> QED
      BY <1>1, <3>1, FirstIsOpen
  <2>2. e # 1
    BY <1>1, <2>1
  <2> QED
    BY <1>1, <2>2
<1>3. Mode(t, c)[e] = "code"
  <2>1. Brackets(t, c)[e] = BracketsAfter(t, Mode(t, c), Brackets(t, c)[e - 1], e)
    BY <1>2, OpenIs
  <2>2. e - 1 \in 1 .. (e - 1)
    BY <1>2
  <2>3. Brackets(t, c)[e - 1] # <<>>
    BY <1>1, <2>2 DEF Nested
  <2> QED
    BY <1>1, <2>1, <2>3, Zenon DEF BracketsAfter
<1>4. IsItem(t, c, e)
  BY <1>1, <1>2, <1>3 DEF IsItem
<1> QED
  BY <1>4 DEF e

(* The string that f opens is closed by g.                                 *)
Closes(t, c, f, g) ==
  /\ Mode(t, c)[g] = "close"
  /\ \A q \in (f + 1) .. (g - 1) : Mode(t, c)[q] \in {"in", "escaped"}

(***************************************************************************)
(* A string that begins in an item is closed in it.                        *)
(***************************************************************************)
LEMMA StringCloses ==
  ASSUME NEW t, NEW c, NEW e, IsItem(t, c, e), NEW f \in 2 .. e, Mode(t, c)[f] = "open"
  PROVE  \E g \in (f + 1) .. (e - 1) : Closes(t, c, f, g)
<1> DEFINE N == {q \in (f + 1) .. e : Mode(t, c)[q] \notin {"in", "escaped"}}
<1>1. e \in 2 .. Len(t) /\ Len(t) \in Nat /\ Mode(t, c)[e] = "code" /\ f \in Nat
  BY DEF IsItem
<1>2. f # e
  BY <1>1
<1>3. e \in N
  BY <1>1, <1>2
<1>4. N \in SUBSET Nat
  BY <1>1
<1>5. PICK g \in N : \A q \in N : g <= q
  <2> HIDE DEF N
  <2> QED
    BY <1>3, <1>4, LeastExists
<1>6. g \in (f + 1) .. e /\ Mode(t, c)[g] \notin {"in", "escaped"} /\ g \in 2 .. Len(t) /\ g \in Nat
  BY <1>1, <1>5
<1>7. \A q \in (f + 1) .. (g - 1) : Mode(t, c)[q] \in {"in", "escaped"}
  <2> SUFFICES ASSUME NEW q \in (f + 1) .. (g - 1), Mode(t, c)[q] \notin {"in", "escaped"}
               PROVE  FALSE
    OBVIOUS
  <2>1. q \in (f + 1) .. e /\ ~ (g <= q)
    BY <1>1, <1>6
  <2> QED
    BY <1>5, <2>1
<1>8. Mode(t, c)[g - 1] \in InString
  <2>1. g - 1 = f \/ g - 1 \in (f + 1) .. (g - 1)
    BY <1>1, <1>6
  <2> QED
    BY <1>7, <2>1 DEF InString
<1>9. Mode(t, c)[g] = "close"
  <2>1. Mode(t, c)[g] = ModeAfter(t, c, Mode(t, c)[g - 1], g)
    BY <1>1, <1>6, OpenIs
  <2>2. ModeAfter(t, c, Mode(t, c)[g - 1], g) \in {"in", "escaped", "close"}
    BY <1>8, AfterString
  <2> QED
    BY <1>6, <2>1, <2>2
<1>10. g # e
  BY <1>1, <1>9
<1>11. g \in (f + 1) .. (e - 1)
  BY <1>1, <1>6, <1>10
<1> QED
  BY <1>7, <1>9, <1>11 DEF Closes

(* A comment up to the end of the line, at f, ends at g.                   *)
EndsLine(t, c, f, g) ==
  /\ t[g] = "\n" /\ \A q \in f .. g : Mode(t, c)[q] = "line"
  /\ \A q \in f .. (g - 1) : t[q] # "\n"

(***************************************************************************)
(* A comment that begins in an item ends in it.                            *)
(***************************************************************************)
LEMMA LineEnds ==
  ASSUME NEW t, NEW c, NEW e, IsItem(t, c, e), NEW f \in 2 .. e, Mode(t, c)[f] = "line"
  PROVE  \E g \in f .. (e - 1) : EndsLine(t, c, f, g)
<1> DEFINE N == {q \in f .. e : t[q] = "\n" \/ Mode(t, c)[q] # "line"}
<1>1. e \in 2 .. Len(t) /\ Len(t) \in Nat /\ Mode(t, c)[e] = "code" /\ f \in Nat
  BY DEF IsItem
<1>2. f # e
  BY <1>1
<1>3. e \in N
  BY <1>1, <1>2
<1>4. N \in SUBSET Nat
  BY <1>1
<1>5. PICK g \in N : \A q \in N : g <= q
  <2> HIDE DEF N
  <2> QED
    BY <1>3, <1>4, LeastExists
<1>6. g \in f .. e /\ (t[g] = "\n" \/ Mode(t, c)[g] # "line") /\ g \in 2 .. Len(t) /\ g \in Nat
  BY <1>1, <1>5
<1>7. \A q \in f .. (g - 1) : Mode(t, c)[q] = "line" /\ t[q] # "\n"
  <2> SUFFICES ASSUME NEW q \in f .. (g - 1), t[q] = "\n" \/ Mode(t, c)[q] # "line"
               PROVE  FALSE
    OBVIOUS
  <2>1. q \in f .. e /\ ~ (g <= q)
    BY <1>1, <1>6
  <2> QED
    BY <1>5, <2>1
<1>8. Mode(t, c)[g] = "line"
  <2>1. CASE g = f
    BY <2>1
  <2>2. CASE g # f
    <3>1. g - 1 \in f .. (g - 1)
      BY <1>1, <1>6, <2>2
    <3>2. Mode(t, c)[g - 1] = "line" /\ t[g - 1] # "\n"
      BY <1>7, <3>1
    <3>3. Mode(t, c)[g] = ModeAfter(t, c, Mode(t, c)[g - 1], g)
      BY <1>1, <1>6, OpenIs
    <3> QED
      BY <3>2, <3>3, AfterLine
  <2> QED
    BY <2>1, <2>2
<1>9. g # e
  BY <1>1, <1>8
<1>10. g \in f .. (e - 1) /\ \A q \in f .. g : q = g \/ q \in f .. (g - 1)
  BY <1>1, <1>6, <1>9
<1> QED
  BY <1>6, <1>7, <1>8, <1>10 DEF EndsLine

-----------------------------------------------------------------------------
(* Strings: where each ends, and that every search for its end finds it.   *)

(***************************************************************************)
(* What is carried out of a place.                                         *)
(***************************************************************************)
LEMMA Halves ==
  /\ 0 \div 2 = 0 /\ 1 \div 2 = 0 /\ 2 \div 2 = 1 /\ 3 \div 2 = 1
  /\ 0 % 2 = 0 /\ 1 % 2 = 1 /\ 2 % 2 = 0 /\ 3 % 2 = 1
OBVIOUS

(***************************************************************************)
(* The carries of a sum: none into the first place, and half of what is    *)
(* added in each place into the next.                                      *)
(***************************************************************************)
LEMMA CarriesAre ==
  ASSUME NEW a, NEW b
  PROVE  /\ Carries(a, b)[0] = 0
         /\ \A i \in 0 .. Block : Carries(a, b)[i] \in {0, 1}
         /\ \A i \in 0 .. (Block - 1) : Carries(a, b)[i + 1] = (Bit(a, i) + Bit(b, i) + Carries(a, b)[i]) \div 2
<1> DEFINE half == [i \in 1 .. Block |-> [x \in {0, 1} |-> (Bit(a, i - 1) + Bit(b, i - 1) + x) \div 2]]
<1>1. Block \in Nat
  BY BlockType
<1>2. \A s, i : Bit(s, i) \in {0, 1}
  BY DEF Bit
<1>3. \A i \in 1 .. Block : \A x \in {0, 1} : half[i][x] = (Bit(a, i - 1) + Bit(b, i - 1) + x) \div 2
  OBVIOUS
<1>4. \A i \in 1 .. Block : \A x \in {0, 1} : half[i][x] \in {0, 1}
  <2>1. \A u, v, x \in {0, 1} : (u + v + x) \div 2 \in {0, 1}
    BY Halves
  <2> QED
    BY <1>2, <1>3, <2>1
<1> HIDE DEF half
<1>5. PICK g : GoesUp(g, Block, 0, half)
  BY <1>1, UpwardRecursion
<1>6. \A i \in 0 .. Block : g[i] \in {0, 1}
  <2> DEFINE S == {i \in 0 .. Block : g[i] \in {0, 1}}
  <2>1. 0 \in S
    BY <1>1, <1>5 DEF GoesUp
  <2>2. \A i \in (0 + 1) .. Block : i - 1 \in S => i \in S
    BY <1>1, <1>4, <1>5 DEF GoesUp
  <2>3. \A i \in 0 .. Block : i \in S
    <3> HIDE DEF S
    <3> QED
      BY <1>1, <2>1, <2>2, UpFrom
  <2> QED
    BY <2>3
<1>7. \A i \in 1 .. Block : i - 1 \in 0 .. Block /\ i # 0 /\ i \in 0 .. Block
  BY <1>1
<1>8. g = [i \in 0 .. Block |-> IF i = 0 THEN 0 ELSE (Bit(a, i - 1) + Bit(b, i - 1) + g[i - 1]) \div 2]
  <2>1. \A i \in 1 .. Block : g[i] = (Bit(a, i - 1) + Bit(b, i - 1) + g[i - 1]) \div 2
    BY <1>3, <1>5, <1>6, <1>7, Zenon DEF GoesUp
  <2>2. \A i \in 0 .. Block : i = 0 \/ i \in 1 .. Block
    BY <1>1
  <2> QED
    BY <1>5, <2>1, <2>2, Zenon DEF GoesUp
<1> DEFINE into == CHOOSE f : f = [i \in 0 .. Block |-> IF i = 0 THEN 0 ELSE (Bit(a, i - 1) + Bit(b, i - 1) + f[i - 1]) \div 2]
<1>9. into = [i \in 0 .. Block |-> IF i = 0 THEN 0 ELSE (Bit(a, i - 1) + Bit(b, i - 1) + into[i - 1]) \div 2]
  BY <1>8, Zenon
<1>10. Carries(a, b) = into
  BY Zenon DEF Carries
<1> HIDE DEF into
<1>11. into[0] = 0
  <2>1. 0 \in 0 .. Block
    BY <1>1
  <2> QED
    BY <1>9, <2>1, Zenon
<1>12. \A i \in 1 .. Block : into[i] = (Bit(a, i - 1) + Bit(b, i - 1) + into[i - 1]) \div 2
  BY <1>7, <1>9, Zenon
<1>13. \A i \in 0 .. Block : into[i] \in {0, 1}
  <2> DEFINE S == {i \in 0 .. Block : into[i] \in {0, 1}}
  <2>1. 0 \in S
    BY <1>1, <1>11
  <2>2. \A i \in (0 + 1) .. Block : i - 1 \in S => i \in S
    <3> SUFFICES ASSUME NEW i \in 1 .. Block, into[i - 1] \in {0, 1}
                 PROVE  into[i] \in {0, 1}
      BY <1>1
    <3> QED
      BY <1>3, <1>4, <1>12, Zenon
  <2>3. \A i \in 0 .. Block : i \in S
    <3> HIDE DEF S
    <3> QED
      BY <1>1, <2>1, <2>2, UpFrom
  <2> QED
    BY <2>3
<1>14. ASSUME NEW i \in 0 .. (Block - 1)
       PROVE  into[i + 1] = (Bit(a, i) + Bit(b, i) + into[i]) \div 2
  <2>1. i + 1 \in 1 .. Block /\ (i + 1) - 1 = i
    BY <1>1
  <2> QED
    BY <1>12, <2>1
<1> QED
  BY <1>10, <1>11, <1>13, <1>14

(* In a block whose backslashes are A, the first character is escaped if   *)
(* the block before it says so, any other, and the first of the next block,*)
(* if it follows a backslash that is not escaped itself.                   *)
EscapesIn(escaped, carry, prev, A) ==
  /\ 0 \in escaped <=> prev = {0}
  /\ \A i \in 0 .. (Block - 1) : i + 1 \in escaped <=> i \in A /\ i \notin escaped
  /\ carry = {0} <=> Block \in escaped
  /\ carry \in SUBSET {0}

(***************************************************************************)
(* That is what find_escaped_branchless computes with an addition: a run   *)
(* of backslashes that begins at an odd place carries out of the run, and  *)
(* the parity of the place behind the run then tells the same.             *)
(***************************************************************************)
LEMMA EscapedIs ==
  ASSUME NEW prev \in SUBSET {0}, NEW A \in SUBSET (0 .. (Block - 1))
  PROVE  EscapesIn(FindEscaped(prev, A).escaped, FindEscaped(prev, A).carry, prev, A)
<1> DEFINE B == A \ prev
           F == Shifted(B) \cup prev
           O == {i \in B : i % 2 = 1} \ F
           c == Carries(O, B)
           sum == SumBits(O, B)
           E == FindEscaped(prev, A).escaped
           out == FindEscaped(prev, A).carry
           odd(i) == i % 2 = 1
<1>1. Block \in Nat /\ Block > 1 /\ Block % 2 = 0
  BY BlockAssumption
<1>2. \A i \in 0 .. (Block - 1) : i \in Nat /\ i + 1 \in Nat /\ i + 1 # 0 /\ i + 1 \in 1 .. Block
  BY <1>1
<1>3. E = {i \in F : i % 2 = 0 <=> i \notin Shifted(sum)} /\ out = IF c[Block] = 0 THEN {} ELSE {0}
  BY DEF FindEscaped
<1>4. /\ c[0] = 0
      /\ \A i \in 0 .. Block : c[i] \in {0, 1}
      /\ \A i \in 0 .. (Block - 1) : c[i + 1] = (Bit(O, i) + Bit(B, i) + c[i]) \div 2
  BY CarriesAre
<1>5. \A i \in 0 .. (Block - 1) : i \in sum <=> (Bit(O, i) + Bit(B, i) + c[i]) % 2 = 1
  BY DEF SumBits
<1>6. sum \in SUBSET (0 .. (Block - 1)) /\ B \in SUBSET (0 .. (Block - 1))
  BY DEF SumBits
<1>7. \A S \in SUBSET (0 .. (Block - 1)) :
        0 \notin Shifted(S) /\ \A i \in 0 .. (Block - 1) : i + 1 \in Shifted(S) <=> i \in S
  BY <1>1 DEF Shifted
<1>8. \A i \in 0 .. (Block - 1) : (i + 1 \in F <=> i \in B) /\ (i + 1 \in Shifted(sum) <=> i \in sum)
  <2>1. \A i \in 0 .. (Block - 1) : i + 1 \notin prev
    BY <1>2
  <2>2. \A i : i \in F <=> i \in Shifted(B) \/ i \in prev
    OBVIOUS
  <2> HIDE DEF F, B, sum
  <2> QED
    BY <1>6, <1>7, <2>1, <2>2
<1>9. 0 \notin Shifted(sum) /\ (0 \in F <=> prev = {0})
  <2>1. 0 \in F <=> 0 \in Shifted(B) \/ prev = {0}
    OBVIOUS
  <2> HIDE DEF F, B, sum
  <2> QED
    BY <1>6, <1>7, <2>1
<1>10. \A i : i \in B <=> i \in A /\ i \notin prev
  OBVIOUS
<1>11. \A i \in B : i \in O <=> odd(i) /\ i \notin F
  OBVIOUS
<1>12. O \subseteq B
  OBVIOUS
<1>13. \A i \in 0 .. (Block - 1) : (i + 1) % 2 = 0 <=> odd(i)
  BY <1>1
<1>14. \A i \in Nat : i \in E <=> i \in F /\ (~ odd(i) <=> i \notin Shifted(sum))
  <2>1. \A i \in Nat : i % 2 = 0 <=> ~ odd(i)
    OBVIOUS
  <2> HIDE DEF F, E, odd
  <2> QED
    BY <1>3, <2>1
<1> HIDE DEF B, F, O, c, sum, E, out, odd
<1>15. \A i \in 0 .. (Block - 1) : i \in B /\ i \notin F => c[i] = 0
  <2> SUFFICES ASSUME NEW i \in 0 .. (Block - 1), i \in B, i \notin F PROVE c[i] = 0
    OBVIOUS
  <2>1. CASE i = 0
    BY <1>4, <2>1
  <2>2. CASE i # 0
    <3>1. i - 1 \in 0 .. (Block - 1) /\ (i - 1) + 1 = i /\ i - 1 \in 0 .. Block
      BY <1>1, <2>2
    <3>2. i - 1 \notin B /\ i - 1 \notin O
      BY <1>8, <1>12, <3>1
    <3>3. Bit(O, i - 1) = 0 /\ Bit(B, i - 1) = 0
      BY <3>2 DEF Bit
    <3>4. c[i] = (0 + 0 + c[i - 1]) \div 2 /\ c[i - 1] \in {0, 1}
      BY <1>4, <3>1, <3>3
    <3> QED
      BY <3>4, Halves
  <2> QED
    BY <2>1, <2>2
<1>16. \A i \in 0 .. (Block - 1) : i \notin B => c[i + 1] = 0
  <2> SUFFICES ASSUME NEW i \in 0 .. (Block - 1), i \notin B PROVE c[i + 1] = 0
    OBVIOUS
  <2>1. Bit(O, i) = 0 /\ Bit(B, i) = 0
    BY <1>12 DEF Bit
  <2>2. i \in 0 .. Block
    BY <1>1
  <2>3. c[i + 1] = (0 + 0 + c[i]) \div 2 /\ c[i] \in {0, 1}
    BY <1>4, <2>1, <2>2
  <2> QED
    BY <2>3, Halves
<1>17. \A i \in 0 .. (Block - 1) : i \in B => c[i + 1] = IF i \in O THEN 1 ELSE c[i]
  <2> SUFFICES ASSUME NEW i \in 0 .. (Block - 1), i \in B PROVE c[i + 1] = IF i \in O THEN 1 ELSE c[i]
    OBVIOUS
  <2>1. Bit(O, i) = (IF i \in O THEN 1 ELSE 0) /\ Bit(B, i) = 1
    BY DEF Bit
  <2>2. i \in 0 .. Block
    BY <1>1
  <2>3. c[i + 1] = (Bit(O, i) + Bit(B, i) + c[i]) \div 2 /\ c[i] \in {0, 1}
    BY <1>4, <2>2
  <2> QED
    BY <2>1, <2>3, Halves
<1>18. \A i \in 0 .. (Block - 1) : i \in B => (i \in sum <=> c[i + 1] = 0)
  <2> SUFFICES ASSUME NEW i \in 0 .. (Block - 1), i \in B PROVE i \in sum <=> c[i + 1] = 0
    OBVIOUS
  <2>1. Bit(O, i) = (IF i \in O THEN 1 ELSE 0) /\ Bit(B, i) = 1
    BY DEF Bit
  <2>2. i \in 0 .. Block
    BY <1>1
  <2>3. i \in sum <=> (Bit(O, i) + Bit(B, i) + c[i]) % 2 = 1
    BY <1>5
  <2>4. c[i] \in {0, 1}
    BY <1>4, <2>2
  <2>5. CASE i \in O
    <3>1. c[i] = 0
      BY <1>11, <1>15, <2>5
    <3> QED
      BY <1>17, <2>1, <2>3, <2>5, <3>1, Halves
  <2>6. CASE i \notin O
    BY <1>17, <2>1, <2>3, <2>4, <2>6, Halves
  <2> QED
    BY <2>5, <2>6
<1>19. \A i \in 0 .. (Block - 1) : i \in B => (i + 1 \in E <=> (odd(i) <=> c[i + 1] = 1))
  <2> SUFFICES ASSUME NEW i \in 0 .. (Block - 1), i \in B PROVE i + 1 \in E <=> (odd(i) <=> c[i + 1] = 1)
    OBVIOUS
  <2>1. i + 1 \in Nat /\ i + 1 \in F /\ i + 1 \in 0 .. Block
    BY <1>1, <1>8
  <2>2. odd(i + 1) <=> ~ odd(i)
    BY <1>2 DEF odd
  <2>3. i + 1 \in E <=> (odd(i) <=> i + 1 \notin Shifted(sum))
    BY <1>14, <2>1, <2>2
  <2>4. i + 1 \in Shifted(sum) <=> c[i + 1] = 0
    BY <1>8, <1>18
  <2>5. c[i + 1] \in {0, 1}
    BY <1>4, <2>1
  <2> QED
    BY <2>3, <2>4, <2>5
<1>20. \A i \in 0 .. (Block - 1) : i \notin B => i + 1 \notin E
  BY <1>2, <1>8, <1>14
<1>21. 0 \in E <=> prev = {0}
  <2>1. ~ odd(0)
    BY Halves DEF odd
  <2> QED
    BY <1>9, <1>14, <2>1
<1>22. ASSUME NEW i \in 0 .. (Block - 1)
       PROVE  i + 1 \in E <=> i \in A /\ i \notin E
  <2>1. i \in Nat /\ i \in 0 .. Block
    BY <1>1
  <2>2. CASE i \in B /\ i \in F
    <3>1. i # 0
      BY <1>9, <1>10, <2>2
    <3>2. i - 1 \in 0 .. (Block - 1) /\ (i - 1) + 1 = i
      BY <1>1, <3>1
    <3>3. i - 1 \in B
      BY <1>8, <2>2, <3>2
    <3>4. i \in E <=> (odd(i - 1) <=> c[i] = 1)
      BY <1>19, <3>2, <3>3
    <3>5. c[i + 1] = c[i]
      BY <1>11, <1>17, <2>2
    <3>6. i + 1 \in E <=> (odd(i) <=> c[i] = 1)
      BY <1>19, <2>2, <3>5
    <3>7. odd(i) <=> ~ odd(i - 1)
      BY <3>2 DEF odd
    <3> QED
      BY <1>10, <2>2, <3>4, <3>6, <3>7
  <2>3. CASE i \in B /\ i \notin F
    <3>1. i \notin E
      BY <1>14, <2>1, <2>3
    <3>2. c[i] = 0 /\ (i \in O <=> odd(i))
      BY <1>11, <1>15, <2>3
    <3>3. c[i + 1] = IF odd(i) THEN 1 ELSE 0
      BY <1>17, <2>3, <3>2
    <3>4. i + 1 \in E
      BY <1>19, <2>3, <3>3
    <3> QED
      BY <1>10, <2>3, <3>1, <3>4
  <2>4. CASE i \notin B
    <3>1. i + 1 \notin E
      BY <1>20, <2>4
    <3>2. i \in A => i \in E
      <4>1. i \in A => i \in prev
        BY <1>10, <2>4
      <4>2. i \in prev => i = 0 /\ prev = {0}
        OBVIOUS
      <4> QED
        BY <1>21, <4>1, <4>2
    <3> QED
      BY <3>1, <3>2
  <2> QED
    BY <2>2, <2>3, <2>4
<1>23. out = {0} <=> Block \in E
  <2> DEFINE i == Block - 1
  <2>1. i \in 0 .. (Block - 1) /\ i + 1 = Block /\ Block \in 0 .. Block /\ odd(i)
    BY <1>1 DEF odd
  <2>2. c[Block] \in {0, 1}
    BY <1>4, <2>1
  <2> HIDE DEF i
  <2>3. Block \in E <=> c[Block] = 1
    <3>1. CASE i \in B
      BY <1>19, <2>1, <3>1
    <3>2. CASE i \notin B
      BY <1>16, <1>20, <2>1, <3>2
    <3> QED
      BY <3>1, <3>2
  <2> QED
    BY <1>3, <2>2, <2>3
<1>24. out \in SUBSET {0}
  BY <1>3
<1> QED
  BY <1>21, <1>22, <1>23, <1>24 DEF EscapesIn, E, out

(* A string that begins at f and is closed at g, or never if g is the end  *)
(* of the text.                                                            *)
StringAt(t, c, f, g, last) ==
  /\ Len(t) \in Nat /\ last = Len(t) + 1 /\ \A p \in 1 .. Len(t) : t[p] # NUL
  /\ f \in 1 .. Len(t) /\ Mode(t, c)[f] = "open"
  /\ g \in (f + 1) .. last
  /\ \A q \in (f + 1) .. (g - 1) : Mode(t, c)[q] \in {"in", "escaped"}
  /\ g <= Len(t) => Mode(t, c)[g] = "close"

(* What a character of it, behind the first quote, is.                     *)
IsInside(t, c, g, q) ==
  /\ q \in 1 .. Len(t) /\ At(t, q) = t[q] /\ t[q] # NUL
  /\ Mode(t, c)[q] = IF q = g THEN "close" ELSE IF Mode(t, c)[q] = "escaped" THEN "escaped" ELSE "in"
  /\ Mode(t, c)[q] = "escaped" <=> Mode(t, c)[q - 1] = "in" /\ t[q - 1] = "\\"
  /\ Mode(t, c)[q] = "close" => t[q] = "\""
  /\ Mode(t, c)[q] = "in" => t[q] # "\""

(***************************************************************************)
(* A character of a string is what the one in front of it makes it.        *)
(***************************************************************************)
LEMMA Inside ==
  ASSUME NEW t, NEW c, NEW f, NEW g, NEW last, StringAt(t, c, f, g, last), NEW q \in (f + 1) .. g, q <= Len(t)
  PROVE  IsInside(t, c, g, q)
<1> USE DEF StringAt
<1>1. Len(t) \in Nat /\ f \in Nat /\ g \in Nat /\ q \in Nat
  OBVIOUS
<1>2. q \in 2 .. Len(t) /\ q \in 1 .. Len(t)
  BY <1>1
<1>3. Mode(t, c)[q] = ModeAfter(t, c, Mode(t, c)[q - 1], q)
  BY <1>1, <1>2, OpenIs
<1>4. Mode(t, c)[q - 1] \in InString
  <2>1. q - 1 = f \/ q - 1 \in (f + 1) .. (g - 1)
    BY <1>1
  <2> QED
    BY <2>1 DEF InString
<1>5. Mode(t, c)[q] = "escaped" <=> Mode(t, c)[q - 1] = "in" /\ t[q - 1] = "\\"
  BY <1>3, <1>4, AfterString
<1>6. (Mode(t, c)[q] = "close" => t[q] = "\"") /\ (Mode(t, c)[q] = "in" => t[q] # "\"")
  BY <1>3, InOrClose
<1>7. Mode(t, c)[q] = IF q = g THEN "close" ELSE IF Mode(t, c)[q] = "escaped" THEN "escaped" ELSE "in"
  <2>1. CASE q = g
    BY <2>1
  <2>2. CASE q # g
    <3>1. q \in (f + 1) .. (g - 1)
      BY <1>1, <2>2
    <3>2. Mode(t, c)[q] \in {"in", "escaped"}
      BY <3>1
    <3> QED
      BY <2>2, <3>2
  <2> QED
    BY <2>1, <2>2
<1>8. At(t, q) = t[q] /\ t[q] # NUL
  BY <1>2 DEF At
<1> QED
  BY <1>2, <1>5, <1>6, <1>7, <1>8 DEF IsInside

(* Positions a search for its end comes to: of characters that are not     *)
(* escaped, and behind a string that is not closed.                        *)
Reached(t, c, f, g, last) ==
  {q \in (f + 1) .. (last + 1) : IF q <= Len(t) THEN q <= g /\ Mode(t, c)[q] # "escaped" ELSE g = last}

(* What it finds.                                                          *)
IsEndOf(t, g, x) == IF g <= Len(t) THEN x = g /\ At(t, x) = "\"" ELSE At(t, x) # "\""

(***************************************************************************)
(* The search goes from one such position to another ...                   *)
(***************************************************************************)
LEMMA ReachedOn ==
  ASSUME NEW t, NEW c, NEW f, NEW g, NEW last, StringAt(t, c, f, g, last),
         NEW b, NEW q \in Reached(t, c, f, g, last), ~ Stops(t, last, b, q)
  PROVE  Step(t, q) \in Reached(t, c, f, g, last)
<1>1. Len(t) \in Nat /\ last = Len(t) + 1 /\ f \in Nat /\ f >= 1 /\ g \in Nat /\ g <= last /\ g >= f + 1
  BY DEF StringAt
<1>2. q \in (f + 1) .. (last + 1) /\ (IF q <= Len(t) THEN q <= g /\ Mode(t, c)[q] # "escaped" ELSE g = last)
  BY DEF Reached
<1>3. q \in Nat /\ q <= Len(t) + 1 /\ At(t, q) # "\""
  <2>1. q \in Nat
    BY <1>1, <1>2
  <2> QED
    BY <1>1, <2>1, StopsAtLast, Zenon
<1>4. CASE q <= Len(t)
  <2>1. q \in (f + 1) .. g
    BY <1>1, <1>2, <1>4
  <2>2. IsInside(t, c, g, q)
    BY <1>4, <2>1, Inside
  <2>3. q # g /\ At(t, q) = t[q] /\ Mode(t, c)[q] = "in"
    BY <1>2, <1>3, <1>4, <2>2 DEF IsInside
  <2>4. q + 1 \in (f + 1) .. g /\ (q + 1) - 1 = q /\ q + 1 \in Nat
    BY <1>1, <2>1, <2>3
  <2>5. q + 1 <= Len(t) => IsInside(t, c, g, q + 1)
    BY <2>4, Inside
  <2>6. CASE t[q] # "\\"
    <3>1. Step(t, q) = q + 1
      BY <2>3, <2>6 DEF Step
    <3>2. q + 1 <= Len(t) => Mode(t, c)[q + 1] # "escaped"
      BY <2>4, <2>5, <2>6 DEF IsInside
    <3>3. q + 1 <= Len(t) \/ g = last
      BY <1>1, <2>4
    <3>4. q + 1 \in (f + 1) .. (last + 1) /\ q + 1 <= g
      BY <1>1, <2>4
    <3>5. q + 1 \in Reached(t, c, f, g, last)
      BY <3>2, <3>3, <3>4 DEF Reached
    <3> QED
      BY <3>1, <3>5
  <2>7. CASE t[q] = "\\"
    <3>1. Step(t, q) = q + 2
      BY <2>3, <2>7 DEF Step
    <3>2. q + 1 <= Len(t) => Mode(t, c)[q + 1] = "escaped" /\ q + 1 # g
      BY <2>3, <2>4, <2>5, <2>7 DEF IsInside
    <3>3. q + 2 <= Len(t) => q + 2 \in (f + 1) .. g /\ q + 1 <= Len(t) /\ (q + 2) - 1 = q + 1
      BY <1>1, <2>4, <3>2
    <3>4. q + 2 <= Len(t) => IsInside(t, c, g, q + 2)
      BY <3>3, Inside
    <3>5. q + 2 <= Len(t) => q + 2 <= g /\ Mode(t, c)[q + 2] # "escaped"
      <4>1. q + 2 <= Len(t) => Mode(t, c)[q + 1] # "in"
        BY <3>2, <3>3
      <4>2. q + 2 <= Len(t) => q + 2 <= g
        BY <1>1, <3>3
      <4> QED
        BY <3>3, <3>4, <4>1, <4>2 DEF IsInside
    <3>6. ~ (q + 2 <= Len(t)) => g = last
      BY <1>1, <2>4, <3>2
    <3>7. q + 2 \in (f + 1) .. (last + 1)
      BY <1>1, <1>4, <2>1
    <3>8. q + 2 \in Reached(t, c, f, g, last)
      BY <3>5, <3>6, <3>7 DEF Reached
    <3> QED
      BY <3>1, <3>8
  <2> QED
    BY <2>6, <2>7
<1>5. CASE ~ (q <= Len(t))
  <2>1. q = last
    <3>1. q \in Nat /\ q <= Len(t) + 1
      BY <1>3
    <3> QED
      BY <1>1, <1>5, <3>1
  <2>2. At(t, q) = NUL
    <3>1. q \notin 1 .. Len(t)
      BY <1>1, <1>5
    <3> QED
      BY <3>1, Zenon DEF At
  <2>3. Step(t, q) = q + 1
    BY <2>2 DEF Step, NUL
  <2>4. q + 1 \in (f + 1) .. (last + 1) /\ ~ (q + 1 <= Len(t)) /\ g = last
    BY <1>1, <1>2, <1>5, <2>1
  <2>5. q + 1 \in Reached(t, c, f, g, last)
    BY <2>4 DEF Reached
  <2> QED
    BY <2>3, <2>5
<1> QED
  BY <1>4, <1>5

(***************************************************************************)
(* ... and stops only at the end.                                          *)
(***************************************************************************)
LEMMA StopIsEnd ==
  ASSUME NEW t, NEW c, NEW f, NEW g, NEW last, StringAt(t, c, f, g, last),
         NEW b, NEW x \in Reached(t, c, f, g, last), Stops(t, last, b, x)
  PROVE  IsEndOf(t, g, x)
<1>1. Len(t) \in Nat /\ last = Len(t) + 1 /\ f \in Nat /\ f >= 1 /\ g \in Nat /\ g <= last /\ g >= f + 1
  BY DEF StringAt
<1>2. x \in (f + 1) .. (last + 1) /\ (IF x <= Len(t) THEN x <= g /\ Mode(t, c)[x] # "escaped" ELSE g = last)
  BY DEF Reached
<1>3. x \in Nat
  BY <1>1, <1>2
<1>4. CASE x <= Len(t)
  <2>1. x \in (f + 1) .. g
    BY <1>1, <1>2, <1>4
  <2>2. IsInside(t, c, g, x)
    BY <1>4, <2>1, Inside
  <2>3. ~ Exhausted(t, last, b, x)
    <3>1. ~ (x >= last) /\ ~ (x > Len(t) + 1)
      BY <1>1, <1>3, <1>4
    <3>2. At(t, x) # NUL
      BY <2>2 DEF IsInside
    <3> QED
      BY <3>1, <3>2, Zenon DEF Exhausted
  <2>4. At(t, x) = "\""
    BY <2>3, Zenon DEF Stops
  <2>5. x = g
    BY <1>2, <1>4, <2>2, <2>4 DEF IsInside
  <2> QED
    BY <1>4, <2>4, <2>5 DEF IsEndOf
<1>5. CASE ~ (x <= Len(t))
  <2>1. ~ (g <= Len(t))
    BY <1>1, <1>2, <1>5
  <2>2. x \notin 1 .. Len(t)
    BY <1>1, <1>5
  <2>3. At(t, x) = NUL
    BY <2>2, Zenon DEF At
  <2> QED
    BY <2>1, <2>3 DEF IsEndOf, NUL
<1> QED
  BY <1>4, <1>5

(* A search for the end that begins at a is right.                         *)
EndsAt(t, g, last, b, a) == IsEndOf(t, g, End(t, last, b)[a])

(***************************************************************************)
(* So the search for the end of a string stops at the quote that closes    *)
(* it, and at none if it is not closed.                                    *)
(***************************************************************************)
LEMMA EndIsRight ==
  ASSUME NEW t, NEW c, NEW f, NEW g, NEW last, StringAt(t, c, f, g, last),
         NEW b, NEW a \in Reached(t, c, f, g, last)
  PROVE  EndsAt(t, g, last, b, a)
<1> DEFINE P == Reached(t, c, f, g, last)
           x == End(t, last, b)[a]
<1>1. Len(t) \in Nat /\ P \in SUBSET (1 .. (Len(t) + 3))
  BY DEF StringAt, Reached
<1>2. \A q \in P : ~ Stops(t, last, b, q) => Step(t, q) \in P
  BY ReachedOn
<1>3. x \in P /\ Stops(t, last, b, x)
  <2> HIDE DEF P
  <2>1. a \in P
    BY DEF P
  <2> QED
    BY <1>1, <1>2, <2>1, EndFinds
<1> HIDE DEF x
<1> QED
  BY <1>3, StopIsEnd DEF EndsAt, x

(* The backslashes of a string that begin an escape.                       *)
Escapes(t, c, f, g) == {p \in (f + 1) .. (g - 1) : Mode(t, c)[p + 1] = "escaped"}

(* What the strict search that begins at a finds: no end, or one behind    *)
(* escapes of JSON only.                                                   *)
StrictlyEndsAt(t, c, f, g, last, b, a) ==
  \/ StrictEnd(t, last, b)[a] = 0
  \/ /\ IsEndOf(t, g, StrictEnd(t, last, b)[a])
     /\ g <= Len(t) => \A p \in Escapes(t, c, f, g) : t[p + 1] \in Escapable

(***************************************************************************)
(* The strict search passes escapes of JSON only.                          *)
(***************************************************************************)
LEMMA StrictIsRight ==
  ASSUME NEW t, NEW c, NEW f, NEW g, NEW last, StringAt(t, c, f, g, last), NEW b
  PROVE  StrictlyEndsAt(t, c, f, g, last, b, f + 1)
<1> DEFINE R == Reached(t, c, f, g, last)
           bad(p) == p + 1 <= Len(t) /\ Mode(t, c)[p + 1] = "escaped" /\ t[p + 1] \notin Escapable
           P == {q \in R : \A p \in (f + 1) .. (q - 1) : ~ bad(p)}
           x == StrictEnd(t, last, b)[f + 1]
<1>1. Len(t) \in Nat /\ last = Len(t) + 1 /\ f \in Nat /\ f >= 1 /\ f <= Len(t) /\ g \in Nat /\ g <= last /\ g >= f + 1
  BY DEF StringAt
<1>2. R \in SUBSET (1 .. (Len(t) + 3)) /\ R \in SUBSET Nat
  BY <1>1 DEF Reached
<1>3. f + 1 \in P
  <2>1. f + 1 \in (f + 1) .. (last + 1)
    BY <1>1
  <2>2. f + 1 <= Len(t) => IsInside(t, c, g, f + 1)
    <3>1. f + 1 \in (f + 1) .. g
      BY <1>1
    <3> QED
      BY <3>1, Inside
  <2>3. f + 1 <= Len(t) => Mode(t, c)[f + 1] # "escaped"
    <3>1. (f + 1) - 1 = f /\ Mode(t, c)[f] # "in"
      BY <1>1 DEF StringAt
    <3> QED
      BY <2>2, <3>1 DEF IsInside
  <2>4. f + 1 <= g /\ (~ (f + 1 <= Len(t)) => g = last)
    BY <1>1
  <2>5. f + 1 \in R
    BY <2>1, <2>3, <2>4 DEF Reached
  <2>6. (f + 1) .. ((f + 1) - 1) = {}
    BY <1>1
  <2> HIDE DEF R, bad
  <2> QED
    BY <2>5, <2>6
<1>4. ASSUME NEW q \in P, ~ Stops(t, last, b, q), ~ Refused(t, q)
      PROVE  Step(t, q) \in P
  <2>1. q \in R /\ \A p \in (f + 1) .. (q - 1) : ~ bad(p)
    OBVIOUS
  <2>2. Step(t, q) \in R
    BY <1>4, <2>1, ReachedOn
  <2>3. Step(t, q) = q + 1 \/ (Step(t, q) = q + 2 /\ At(t, q) = "\\")
    BY DEF Step
  <2>4. ASSUME NEW p \in (f + 1) .. (Step(t, q) - 1) PROVE ~ bad(p)
    <3>1. q \in Nat /\ Step(t, q) \in Nat /\ p \in Nat
      BY <1>1, <1>2, <2>1, <2>2
    <3>2. p \in (f + 1) .. (q - 1) \/ p + 1 = Step(t, q) \/ (p = q /\ Step(t, q) = q + 2)
      <4>1. Step(t, q) = q + 1 \/ Step(t, q) = q + 2
        BY <2>3
      <4>2. p >= f + 1 /\ p <= Step(t, q) - 1
        BY <1>1, <3>1
      <4> HIDE DEF P, R
      <4> QED
        BY <1>1, <3>1, <4>1, <4>2
    <3>3. CASE p \in (f + 1) .. (q - 1)
      BY <2>1, <3>3
    <3>4. CASE p + 1 = Step(t, q)
      BY <2>2, <3>4 DEF Reached
    <3>5. CASE p = q /\ Step(t, q) = q + 2
      <4>1. At(t, q) = "\\"
        <5>1. q + 2 # q + 1
          BY <3>1
        <5> QED
          BY <2>3, <3>5, <5>1
      <4>2. At(t, q + 1) \in Escapable
        BY <1>4, <4>1, Zenon DEF Refused
      <4>3. q + 1 <= Len(t) => At(t, q + 1) = t[q + 1]
        BY <3>1 DEF At
      <4> QED
        BY <3>5, <4>2, <4>3
    <3> QED
      BY <3>2, <3>3, <3>4, <3>5
  <2> HIDE DEF R, bad
  <2> QED
    BY <2>2, <2>4
<1>5. x = 0 \/ (x \in P /\ Stops(t, last, b, x))
  <2>1. P \in SUBSET (1 .. (Len(t) + 3))
    BY <1>2
  <2> HIDE DEF P
  <2> QED
    BY <1>1, <1>3, <1>4, <2>1, StrictEndFinds
<1>6. ASSUME x \in P, Stops(t, last, b, x)
      PROVE  /\ IsEndOf(t, g, x)
             /\ g <= Len(t) => \A p \in Escapes(t, c, f, g) : t[p + 1] \in Escapable
  <2>1. IsEndOf(t, g, x)
    <3>1. x \in R
      BY <1>6
    <3> HIDE DEF x
    <3> QED
      BY <1>6, <3>1, StopIsEnd
  <2>2. ASSUME g <= Len(t), NEW p \in Escapes(t, c, f, g) PROVE t[p + 1] \in Escapable
    <3>1. x = g
      BY <2>1, <2>2 DEF IsEndOf
    <3>2. p \in (f + 1) .. (x - 1) /\ Mode(t, c)[p + 1] = "escaped"
      BY <3>1 DEF Escapes
    <3>3. ~ bad(p)
      BY <1>6, <3>2
    <3>4. p + 1 <= Len(t)
      BY <1>1, <2>2, <3>1, <3>2
    <3> QED
      BY <3>2, <3>3, <3>4
  <2> QED
    BY <2>1, <2>2
<1> HIDE DEF P
<1> QED
  BY <1>5, <1>6 DEF StrictlyEndsAt

(* Positions of a string with no backslash in front.                       *)
NoneTo(t, f, q) == \A p \in (f + 1) .. (q - 1) : t[p] # "\\"
PlainTo(t, f, g) == {q \in (f + 1) .. g : NoneTo(t, f, q)}

(***************************************************************************)
(* With no backslash in front, a character of a string is not escaped.     *)
(***************************************************************************)
LEMMA PlainReached ==
  ASSUME NEW t, NEW c, NEW f, NEW g, NEW last, StringAt(t, c, f, g, last), NEW q \in PlainTo(t, f, g)
  PROVE  q \in Reached(t, c, f, g, last) /\ (q <= Len(t) => Mode(t, c)[q] \in {"in", "close"})
<1>1. Len(t) \in Nat /\ last = Len(t) + 1 /\ f \in Nat /\ f >= 1 /\ f <= Len(t) /\ g \in Nat /\ g <= last /\ g >= f + 1
  BY DEF StringAt
<1>2. q \in (f + 1) .. g /\ NoneTo(t, f, q)
  BY DEF PlainTo
<1>3. ASSUME q <= Len(t) PROVE Mode(t, c)[q] # "escaped" /\ Mode(t, c)[q] \in {"in", "close"}
  <2>1. IsInside(t, c, g, q)
    BY <1>2, <1>3, Inside
  <2>2. q - 1 = f \/ q - 1 \in (f + 1) .. (q - 1)
    BY <1>1, <1>2
  <2>3. Mode(t, c)[f] = "open"
    BY DEF StringAt
  <2>4. Mode(t, c)[q] # "escaped"
    BY <1>2, <2>1, <2>2, <2>3 DEF IsInside, NoneTo
  <2> QED
    BY <2>1, <2>4 DEF IsInside
<1>4. q \in (f + 1) .. (last + 1) /\ q <= g /\ (~ (q <= Len(t)) => g = last)
  BY <1>1, <1>2
<1> QED
  BY <1>3, <1>4 DEF Reached

(***************************************************************************)
(* An escape begins with a backslash in the string ...                     *)
(***************************************************************************)
LEMMA EscapesAre ==
  ASSUME NEW t, NEW c, NEW f, NEW g, NEW last, StringAt(t, c, f, g, last), g <= Len(t), NEW p \in Escapes(t, c, f, g)
  PROVE  t[p] = "\\" /\ p \in (f + 1) .. (g - 1)
<1>1. Len(t) \in Nat /\ f \in Nat /\ g \in Nat
  BY DEF StringAt
<1>2. p \in (f + 1) .. (g - 1) /\ Mode(t, c)[p + 1] = "escaped"
  BY DEF Escapes
<1>3. p + 1 \in (f + 1) .. g /\ p + 1 <= Len(t) /\ (p + 1) - 1 = p
  BY <1>1, <1>2
<1>4. IsInside(t, c, g, p + 1)
  BY <1>3, Inside
<1> QED
  BY <1>2, <1>3, <1>4 DEF IsInside

(***************************************************************************)
(* ... and the first backslash of a string begins the first escape.        *)
(***************************************************************************)
LEMMA FirstBackslash ==
  ASSUME NEW t, NEW c, NEW f, NEW g, NEW last, StringAt(t, c, f, g, last), g <= Len(t),
         NEW m \in PlainTo(t, f, g), t[m] = "\\"
  PROVE  m \in Escapes(t, c, f, g) /\ \A p \in Escapes(t, c, f, g) : m <= p
<1>1. Len(t) \in Nat /\ f \in Nat /\ g \in Nat /\ f >= 1
  BY DEF StringAt
<1>2. m \in (f + 1) .. g /\ NoneTo(t, f, m) /\ m <= Len(t)
  BY <1>1 DEF PlainTo
<1>3. Mode(t, c)[m] \in {"in", "close"} /\ IsInside(t, c, g, m)
  BY <1>2, PlainReached, Inside
<1>4. m # g /\ Mode(t, c)[m] = "in"
  BY <1>3 DEF IsInside
<1>5. m \in (f + 1) .. (g - 1) /\ m + 1 \in (f + 1) .. g /\ m + 1 <= Len(t) /\ (m + 1) - 1 = m
  BY <1>1, <1>2, <1>4
<1>6. Mode(t, c)[m + 1] = "escaped"
  <2>1. IsInside(t, c, g, m + 1)
    BY <1>5, Inside
  <2> QED
    BY <1>4, <1>5, <2>1 DEF IsInside
<1>7. m \in Escapes(t, c, f, g)
  BY <1>5, <1>6 DEF Escapes
<1>8. ASSUME NEW p \in Escapes(t, c, f, g) PROVE m <= p
  <2>1. t[p] = "\\" /\ p \in (f + 1) .. (g - 1)
    BY EscapesAre
  <2>2. p \notin (f + 1) .. (m - 1)
    BY <1>2, <2>1 DEF NoneTo
  <2> QED
    BY <1>1, <1>2, <2>1, <2>2
<1> QED
  BY <1>7, <1>8

(***************************************************************************)
(* Without a backslash there is none.                                      *)
(***************************************************************************)
LEMMA NoBackslash ==
  ASSUME NEW t, NEW c, NEW f, NEW g, NEW last, StringAt(t, c, f, g, last), g <= Len(t), NoneTo(t, f, g)
  PROVE  Escapes(t, c, f, g) = {}
BY EscapesAre DEF NoneTo

(* e is where the first escape is, or 0.                                   *)
IsFirstEscape(t, c, f, g, e) ==
  IF Escapes(t, c, f, g) = {} THEN e = 0
  ELSE e \in Escapes(t, c, f, g) /\ \A p \in Escapes(t, c, f, g) : e <= p

(***************************************************************************)
(* The search for the first escape finds it, or that there is none.        *)
(***************************************************************************)
LEMMA FirstEscapeIsRight ==
  ASSUME NEW t, NEW c, NEW f, NEW g, NEW last, StringAt(t, c, f, g, last), g <= Len(t),
         NEW b, NEW a \in PlainTo(t, f, g)
  PROVE  IsFirstEscape(t, c, f, g, FirstEscape(t, last, b)[a])
<1> DEFINE P == PlainTo(t, f, g)
           e == FirstEscape(t, last, b)[a]
<1>1. Len(t) \in Nat /\ last = Len(t) + 1 /\ f \in Nat /\ f >= 1 /\ g \in Nat /\ g >= f + 1
  BY DEF StringAt
<1>2. P \in SUBSET (1 .. (Len(t) + 3))
  BY <1>1 DEF PlainTo
<1>3. At(t, g) = "\"" /\ g \in 1 .. Len(t)
  <2>1. g \in (f + 1) .. g
    BY <1>1
  <2>2. IsInside(t, c, g, g)
    BY <2>1, Inside
  <2> QED
    BY <2>2 DEF IsInside
<1>4. ASSUME NEW q \in P PROVE q \in (f + 1) .. g /\ q \in Nat /\ At(t, q) = t[q] /\ NoneTo(t, f, q)
  <2>1. q \in (f + 1) .. g /\ NoneTo(t, f, q)
    BY DEF PlainTo
  <2>2. q \in 1 .. Len(t) /\ q \in Nat
    BY <1>1, <2>1
  <2>3. At(t, q) = t[q]
    BY <2>2 DEF At
  <2> QED
    BY <2>1, <2>2, <2>3
<1>5. ASSUME NEW q \in P, At(t, q) # "\"", At(t, q) # "\\"
      PROVE  q + 1 \in P
  <2>1. q \in (f + 1) .. g /\ q \in Nat /\ t[q] # "\\" /\ NoneTo(t, f, q)
    BY <1>4, <1>5
  <2>2. q # g
    BY <1>3, <1>5
  <2>3. q + 1 \in (f + 1) .. g
    BY <1>1, <2>1, <2>2
  <2>4. \A p \in (f + 1) .. ((q + 1) - 1) : p = q \/ p \in (f + 1) .. (q - 1)
    BY <1>1, <2>1
  <2>5. NoneTo(t, f, q + 1)
    BY <2>1, <2>4 DEF NoneTo
  <2> QED
    BY <2>3, <2>5 DEF PlainTo
<1>6. \A q \in P : ~ Stops(t, last, b, q) /\ At(t, q) # "\\" => q + 1 \in P
  BY <1>5, Zenon DEF Stops
<1> HIDE DEF P
<1>7. a \in P
  BY DEF P
<1>8. \/ e = 0 /\ \E x \in P : Stops(t, last, b, x)
      \/ e \in P /\ At(t, e) = "\\"
  BY <1>1, <1>2, <1>6, <1>7, FirstEscapeFinds
<1> HIDE DEF e
<1>9. ASSUME NEW x \in P, Stops(t, last, b, x), e = 0
      PROVE  IsFirstEscape(t, c, f, g, e)
  <2>1. x \in Reached(t, c, f, g, last)
    BY PlainReached DEF P
  <2>2. x = g
    <3>1. IsEndOf(t, g, x)
      BY <1>9, <2>1, StopIsEnd
    <3> QED
      BY <3>1, Zenon DEF IsEndOf
  <2>3. NoneTo(t, f, g)
    BY <1>4, <2>2
  <2> QED
    BY <1>9, <2>3, NoBackslash DEF IsFirstEscape
<1>10. ASSUME e \in P, At(t, e) = "\\" PROVE IsFirstEscape(t, c, f, g, e)
  <2>1. t[e] = "\\" /\ e \in PlainTo(t, f, g)
    BY <1>4, <1>10 DEF P
  <2>2. e \in Escapes(t, c, f, g) /\ \A p \in Escapes(t, c, f, g) : e <= p
    BY <2>1, FirstBackslash
  <2> QED
    BY <2>2, Zenon DEF IsFirstEscape
<1> QED
  BY <1>8, <1>9, <1>10 DEF e

(***************************************************************************)
(* Whole words are passed up to a position of that kind.                   *)
(***************************************************************************)
LEMMA WordsArePlain ==
  ASSUME NEW t, NEW c, NEW f, NEW g, NEW last, StringAt(t, c, f, g, last)
  PROVE  f + 1 \in PlainTo(t, f, g) /\ WordStart(t, f + 1, last) \in PlainTo(t, f, g)
<1> DEFINE P == PlainTo(t, f, g)
<1>1. Len(t) \in Nat /\ last = Len(t) + 1 /\ f \in Nat /\ f >= 1 /\ g \in Nat /\ g >= f + 1 /\ g <= last
  BY DEF StringAt
<1>2. f + 1 \in P
  <2>1. f + 1 \in (f + 1) .. g /\ (f + 1) .. ((f + 1) - 1) = {}
    BY <1>1
  <2> QED
    BY <2>1 DEF PlainTo, NoneTo
<1>3. P \in SUBSET (1 .. (Len(t) + 1))
  BY <1>1 DEF PlainTo
<1>4. ASSUME NEW size \in Nat \ {0}, NEW q \in P, last - q >= 2 * size, Plain(t, q, size)
      PROVE  q + size \in P
  <2>1. q \in (f + 1) .. g /\ NoneTo(t, f, q) /\ q \in Nat
    BY <1>1 DEF PlainTo
  <2>2. ASSUME NEW p \in q .. (q + size - 1) PROVE t[p] # "\"" /\ t[p] # "\\"
    <3>1. p - q \in 0 .. (size - 1) /\ q + (p - q) = p
      BY <2>1
    <3>2. t[q + (p - q)] \notin {"\"", "\\"}
      BY <1>4, <3>1, Zenon DEF Plain
    <3> QED
      BY <3>1, <3>2
  <2>3. g \notin q .. (q + size - 1)
    <3>1. CASE g <= Len(t)
      <4>1. g \in (f + 1) .. g
        BY <1>1
      <4>2. IsInside(t, c, g, g)
        BY <3>1, <4>1, Inside
      <4>3. t[g] = "\""
        BY <4>2 DEF IsInside
      <4> QED
        BY <2>2, <4>3
    <3>2. CASE ~ (g <= Len(t))
      BY <1>1, <1>4, <2>1, <3>2
    <3> QED
      BY <3>1, <3>2
  <2>4. q + size \in (f + 1) .. g
    BY <1>1, <2>1, <2>3
  <2>5. \A p \in (f + 1) .. ((q + size) - 1) : p \in q .. (q + size - 1) \/ p \in (f + 1) .. (q - 1)
    BY <1>1, <2>1
  <2>6. NoneTo(t, f, q + size)
    BY <2>1, <2>2, <2>5 DEF NoneTo
  <2> QED
    BY <2>4, <2>6 DEF PlainTo
<1>5. BigWord \in Nat \ {0} /\ SmallWord \in Nat \ {0}
  BY BlockAssumption
<1> HIDE DEF P
<1>6. ASSUME NEW size \in Nat \ {0} PROVE SkipWords(t, last, size)[f + 1] \in P
  BY <1>1, <1>2, <1>3, <1>4, SkipWordsStays
<1>7. WordStart(t, f + 1, last) \in P
  BY <1>2, <1>5, <1>6, Zenon DEF WordStart
<1> QED
  BY <1>2, <1>7 DEF P

(* What each way to search tells of a string: where it ends, and of its    *)
(* escapes.                                                                *)
NoteIs(t, c, f, g, how, note) ==
  /\ (how = "block" /\ g + 1 <= Len(t)) \/ (note >= 0 => Escapes(t, c, f, g) # {} /\ \A p \in Escapes(t, c, f, g) : f + 1 + note <= p)
  /\ how \in {"constant", "strict"} =>
       IF Escapes(t, c, f, g) = {} THEN note < 0 ELSE f + 1 + note = Min(Escapes(t, c, f, g))
IsAnswer(t, c, f, g, how, found) ==
  /\ how # "strict" => IsEndOf(t, g, found.end)
  /\ how = "strict" => found.end = 0 \/
                       (/\ IsEndOf(t, g, found.end)
                        /\ g <= Len(t) => \A p \in Escapes(t, c, f, g) : t[p + 1] \in Escapable)
  /\ g <= Len(t) => NoteIs(t, c, f, g, how, found.escape)

(***************************************************************************)
(* The distance of the first escape tells where it is.                     *)
(***************************************************************************)
LEMMA NoteOfFirst ==
  ASSUME NEW t, NEW c, NEW f \in Nat, NEW g \in Nat, NEW e, IsFirstEscape(t, c, f, g, e)
  PROVE  /\ NoteIs(t, c, f, g, "constant", Note(e, e - (f + 1)))
         /\ NoteIs(t, c, f, g, "strict", Note(e, e - (f + 1)))
         /\ NoteIs(t, c, f, g, "runtime", Note(e, (f + 1) - e))
<1> DEFINE S == Escapes(t, c, f, g)
<1>1. S \in SUBSET ((f + 1) .. (g - 1))
  BY DEF Escapes
<1>2. S \in SUBSET Nat /\ \A p \in S : p \in Nat /\ p >= f + 1
  BY <1>1
<1>3. CASE S = {}
  <2>1. Note(e, e - (f + 1)) = -1 /\ Note(e, (f + 1) - e) = -1
    BY <1>3 DEF Note, IsFirstEscape
  <2>2. \A n : n = -1 => n < 0 /\ ~ (n >= 0)
    OBVIOUS
  <2> QED
    BY <1>3, <2>1, <2>2, Zenon DEF NoteIs
<1>4. CASE S # {}
  <2>1. e \in S /\ \A p \in S : e <= p
    BY <1>4, Zenon DEF IsFirstEscape
  <2>2. Min(S) = e
    <3> HIDE DEF S
    <3>1. Min(S) \in S /\ \A i \in S : Min(S) <= i
      BY <1>2, <1>4, MinIsLeast
    <3>2. Min(S) <= e /\ e <= Min(S) /\ e \in Nat /\ Min(S) \in Nat
      BY <1>2, <2>1, <3>1
    <3> DEFINE least == Min(S)
    <3>3. least <= e /\ e <= least /\ e \in Nat /\ least \in Nat
      BY <3>2
    <3> HIDE DEF least
    <3>4. least = e
      BY <3>3
    <3> QED
      BY <3>4 DEF least
  <2>3. e \in Nat /\ e >= f + 1
    BY <1>2, <2>1
  <2>4. Note(e, e - (f + 1)) = e - (f + 1) /\ Note(e, (f + 1) - e) = (f + 1) - e
    <3>1. e # 0
      BY <2>3
    <3> QED
      BY <3>1, Zenon DEF Note
  <2>5. f + 1 + (e - (f + 1)) = e
    BY <2>3
  <2>6. \A p \in S : f + 1 + (e - (f + 1)) <= p
    BY <2>1, <2>5
  <2>7. (f + 1) - e >= 0 => \A p \in S : f + 1 + ((f + 1) - e) <= p
    BY <1>2, <2>1, <2>3
  <2>8. "constant" # "block" /\ "strict" # "block" /\ "runtime" \notin {"constant", "strict", "block"}
    OBVIOUS
  <2> HIDE DEF S
  <2>9. NoteIs(t, c, f, g, "constant", e - (f + 1)) /\ NoteIs(t, c, f, g, "strict", e - (f + 1))
    BY <1>4, <2>2, <2>5, <2>6, Zenon DEF NoteIs, S
  <2>10. NoteIs(t, c, f, g, "runtime", (f + 1) - e)
    BY <1>4, <2>7, <2>8, Zenon DEF NoteIs, S
  <2> QED
    BY <2>4, <2>9, <2>10, Zenon
<1> QED
  BY <1>3, <1>4

(***************************************************************************)
(* Searching at compile time, strictly and with memchr ...                 *)
(***************************************************************************)
LEMMA SearchesAnswer ==
  ASSUME NEW t, NEW c, NEW f, NEW g, NEW last, StringAt(t, c, f, g, last), NEW b
  PROVE  /\ IsAnswer(t, c, f, g, "constant", ConstantSearch(t, f + 1, last, b))
         /\ IsAnswer(t, c, f, g, "strict", StrictSearch(t, f + 1, last, b))
         /\ IsAnswer(t, c, f, g, "runtime", RuntimeSearch(t, f + 1, last, b))
<1> DEFINE a == WordStart(t, f + 1, last)
           r == InRange(b)
<1>1. f \in Nat /\ g \in Nat
  BY DEF StringAt
<1>2. f + 1 \in PlainTo(t, f, g) /\ a \in PlainTo(t, f, g)
  BY WordsArePlain
<1>3. f + 1 \in Reached(t, c, f, g, last) /\ a \in Reached(t, c, f, g, last)
  BY <1>2, PlainReached
<1>4. EndsAt(t, g, last, b, a) /\ EndsAt(t, g, last, r, f + 1) /\ StrictlyEndsAt(t, c, f, g, last, b, f + 1)
  BY <1>3, EndIsRight, StrictIsRight
<1>5. g <= Len(t) => /\ IsFirstEscape(t, c, f, g, FirstEscape(t, last, b)[a])
                     /\ IsFirstEscape(t, c, f, g, FirstEscape(t, last, b)[f + 1])
                     /\ IsFirstEscape(t, c, f, g, FirstEscape(t, last, r)[f + 1])
  BY <1>2, FirstEscapeIsRight
<1> HIDE DEF r
<1>6. /\ ConstantSearch(t, f + 1, last, b).end = End(t, last, b)[a]
      /\ ConstantSearch(t, f + 1, last, b).escape = Note(FirstEscape(t, last, b)[a], FirstEscape(t, last, b)[a] - (f + 1))
  BY DEF ConstantSearch
<1>7. /\ StrictSearch(t, f + 1, last, b).end = StrictEnd(t, last, b)[f + 1]
      /\ StrictSearch(t, f + 1, last, b).escape = Note(FirstEscape(t, last, b)[f + 1], FirstEscape(t, last, b)[f + 1] - (f + 1))
  BY DEF StrictSearch
<1>8. /\ RuntimeSearch(t, f + 1, last, b).end = End(t, last, r)[f + 1]
      /\ RuntimeSearch(t, f + 1, last, b).escape = Note(FirstEscape(t, last, r)[f + 1], (f + 1) - FirstEscape(t, last, r)[f + 1])
  BY DEF RuntimeSearch, r
<1> HIDE DEF a
<1>9. "constant" # "strict" /\ "runtime" # "strict"
  OBVIOUS
<1>10. g <= Len(t) => NoteIs(t, c, f, g, "constant", ConstantSearch(t, f + 1, last, b).escape)
  BY <1>1, <1>5, <1>6, NoteOfFirst
<1>11. g <= Len(t) => NoteIs(t, c, f, g, "strict", StrictSearch(t, f + 1, last, b).escape)
  BY <1>1, <1>5, <1>7, NoteOfFirst
<1>12. g <= Len(t) => NoteIs(t, c, f, g, "runtime", RuntimeSearch(t, f + 1, last, b).escape)
  BY <1>1, <1>5, <1>8, NoteOfFirst
<1>13. IsAnswer(t, c, f, g, "constant", ConstantSearch(t, f + 1, last, b))
  BY <1>4, <1>6, <1>9, <1>10, Zenon DEF IsAnswer, EndsAt
<1>14. IsAnswer(t, c, f, g, "strict", StrictSearch(t, f + 1, last, b))
  BY <1>4, <1>7, <1>11, Zenon DEF IsAnswer, StrictlyEndsAt
<1>15. IsAnswer(t, c, f, g, "runtime", RuntimeSearch(t, f + 1, last, b))
  BY <1>4, <1>8, <1>9, <1>12, Zenon DEF IsAnswer, EndsAt
<1> QED
  BY <1>13, <1>14, <1>15

(* At the beginning of its last characters that are no whole block, a      *)
(* string is not in the middle of an escape.                               *)
NoSplit(t, c, f, last) ==
  \A p \in (f + 1) .. Len(t) :
    /\ last - p < Block /\ Mode(t, c)[p] = "escaped"
    /\ \A q \in (f + 1) .. (p - 1) : Mode(t, c)[q] # "open"
    => (p - (f + 1)) % Block # 0

(* What has been noted when nothing is known yet of the characters from q. *)
NotesOf(t, f, g, q, note) ==
  g = Len(t) => IF note < 0 THEN NoneTo(t, f, q)
                ELSE \E m \in PlainTo(t, f, g) : t[m] = "\\" /\ f + 1 + note <= m

(* The states the search by blocks of that string is in.                   *)
BlockAt(t, c, f, g, s) ==
  /\ s \in States(t) /\ s.at \in (f + 1) .. g /\ (s.at - (f + 1)) % Block = 0
  /\ s.at <= Len(t) => (s.carry = {0} <=> Mode(t, c)[s.at] = "escaped")
  /\ NotesOf(t, f, g, s.at, s.note)

(* A whole block in front of the end.                                      *)
WholeBlock(t, c, f, g, last, s) ==
  StringAt(t, c, f, g, last) /\ BlockAt(t, c, f, g, s) /\ ~ (last - s.at < Block)

(***************************************************************************)
(* Where such a block is.                                                  *)
(***************************************************************************)
LEMMA BlockPlaces ==
  ASSUME NEW t, NEW c, NEW f, NEW g, NEW last, NEW s, WholeBlock(t, c, f, g, last, s)
  PROVE  /\ Len(t) \in Nat /\ last = Len(t) + 1 /\ f \in Nat /\ g \in Nat /\ f >= 1 /\ g >= f + 1 /\ g <= last
         /\ Block \in Nat /\ Block > 0
         /\ s.at \in Nat /\ s.at >= f + 1 /\ s.at <= g /\ s.at + Block <= Len(t) + 1 /\ s \in States(t)
         /\ s.note \in Int /\ s.carry \in SUBSET {0}
<1>1. Len(t) \in Nat /\ last = Len(t) + 1 /\ f \in Nat /\ g \in Nat /\ f >= 1 /\ g >= f + 1 /\ g <= last
  BY DEF WholeBlock, StringAt
<1>2. Block \in Nat /\ Block > 0
  BY BlockType
<1>3. s \in States(t) /\ s.at \in (f + 1) .. g /\ ~ (last - s.at < Block)
  BY DEF WholeBlock, BlockAt
<1>4. s.at \in Nat /\ s.note \in Int /\ s.carry \in SUBSET {0}
  BY <1>2, <1>3 DEF States
<1>5. s.at >= f + 1 /\ s.at <= g /\ s.at + Block <= Len(t) + 1
  BY <1>1, <1>2, <1>3, <1>4
<1> QED
  BY <1>1, <1>2, <1>3, <1>4, <1>5

(***************************************************************************)
(* The escapes found in a block are those of the string.                   *)
(***************************************************************************)
LEMMA BlockEscapes ==
  ASSUME NEW t, NEW c, NEW f, NEW g, NEW last, NEW s, WholeBlock(t, c, f, g, last, s)
  PROVE  /\ \A i \in 0 .. Block : s.at + i <= g /\ s.at + i <= Len(t) =>
              (i \in Escaping(t, s).escaped <=> Mode(t, c)[s.at + i] = "escaped")
         /\ Escaping(t, s).carry = {0} <=> Block \in Escaping(t, s).escaped
<1> DEFINE at == s.at
           A == Bits(t, s.at, "\\")
           E == Escaping(t, s).escaped
           out == Escaping(t, s).carry
           S == {i \in 0 .. Block : at + i <= g /\ at + i <= Len(t) => (i \in E <=> Mode(t, c)[at + i] = "escaped")}
<1>1. Len(t) \in Nat /\ last = Len(t) + 1 /\ f \in Nat /\ g \in Nat /\ f >= 1 /\ g >= f + 1 /\ g <= last
  BY BlockPlaces
<1>2. Block \in Nat /\ Block > 0 /\ at \in Nat /\ at >= f + 1 /\ at <= g /\ at + Block <= Len(t) + 1 /\ s.carry \in SUBSET {0}
  BY BlockPlaces
<1>3. A \in SUBSET (0 .. (Block - 1))
  BY DEF Bits
<1>4. \A i \in 0 .. (Block - 1) : i \in A <=> t[at + i] = "\\"
  <2> SUFFICES ASSUME NEW i \in 0 .. (Block - 1) PROVE i \in A <=> t[at + i] = "\\"
    OBVIOUS
  <2>1. at + i \in 1 .. Len(t)
    <3> HIDE DEF at, A
    <3>1. i \in Nat /\ i <= Block - 1
      BY <1>2
    <3> QED
      BY <1>1, <1>2, <3>1
  <2>2. At(t, s.at + i) = t[at + i]
    BY <2>1 DEF At
  <2> QED
    BY <2>2 DEF Bits
<1>5. EscapesIn(E, out, s.carry, A)
  BY <1>2, <1>3, EscapedIs DEF Escaping
<1> HIDE DEF A, E, out
<1>6. 0 \in S
  <2>1. 0 \in 0 .. Block /\ at + 0 = at /\ at <= Len(t)
    BY <1>1, <1>2
  <2>2. s.carry = {0} <=> Mode(t, c)[at] = "escaped"
    BY <2>1 DEF WholeBlock, BlockAt
  <2>3. 0 \in E <=> s.carry = {0}
    BY <1>5 DEF EscapesIn
  <2> QED
    BY <2>1, <2>2, <2>3
<1>7. ASSUME NEW i \in (0 + 1) .. Block, i - 1 \in S
      PROVE  i \in S
  <2>1. i - 1 \in 0 .. (Block - 1) /\ (i - 1) + 1 = i /\ i \in 0 .. Block /\ i \in Nat /\ i - 1 \in 0 .. Block
    BY <1>2
  <2>2. i \in E <=> i - 1 \in A /\ i - 1 \notin E
    BY <1>5, <2>1 DEF EscapesIn
  <2>3. ASSUME at + i <= g, at + i <= Len(t)
        PROVE  i \in E <=> Mode(t, c)[at + i] = "escaped"
    <3>1. at + i \in (f + 1) .. g /\ (at + i) - 1 = at + (i - 1) /\ at + (i - 1) \in (f + 1) .. g
          /\ at + (i - 1) <= g /\ at + (i - 1) <= Len(t) /\ at + (i - 1) # g
      <4> HIDE DEF at, S
      <4>1. i \in Nat /\ i - 1 \in Nat
        BY <1>2, <2>1
      <4>2. at + i \in Nat /\ (at + i) - 1 = at + (i - 1) /\ at + (i - 1) \in Nat /\ at + (i - 1) < at + i
        BY <1>2, <4>1
      <4> QED
        BY <1>1, <1>2, <2>3, <4>1, <4>2
    <3>2. IsInside(t, c, g, at + i) /\ IsInside(t, c, g, at + (i - 1))
      BY <2>3, <3>1, Inside DEF WholeBlock
    <3>3. Mode(t, c)[at + i] = "escaped" <=> Mode(t, c)[at + (i - 1)] = "in" /\ t[at + (i - 1)] = "\\"
      BY <3>1, <3>2 DEF IsInside
    <3>4. Mode(t, c)[at + (i - 1)] = "in" <=> Mode(t, c)[at + (i - 1)] # "escaped"
      BY <3>1, <3>2 DEF IsInside
    <3>5. i - 1 \in E <=> Mode(t, c)[at + (i - 1)] = "escaped"
      BY <1>7, <3>1
    <3>6. i - 1 \in A <=> t[at + (i - 1)] = "\\"
      BY <1>4, <2>1
    <3> QED
      BY <2>2, <3>3, <3>4, <3>5, <3>6, Zenon
  <2> QED
    BY <2>1, <2>3
<1>8. \A i \in 0 .. Block : i \in S
  <2> HIDE DEF S
  <2> QED
    BY <1>2, <1>6, <1>7, UpFrom
<1>9. out = {0} <=> Block \in E
  BY <1>5 DEF EscapesIn
<1> QED
  BY <1>8, <1>9 DEF E, out

(***************************************************************************)
(* The quotes found in it are those of the string up to its end, which is  *)
(* the first.                                                              *)
(***************************************************************************)
LEMMA BlockQuotes ==
  ASSUME NEW t, NEW c, NEW f, NEW g, NEW last, NEW s, WholeBlock(t, c, f, g, last, s)
  PROVE  /\ Quotes(t, s) = {} => s.at + Block <= g
         /\ Quotes(t, s) # {} => s.at + Min(Quotes(t, s)) = g /\ g <= Len(t)
<1> DEFINE at == s.at
           E == Escaping(t, s).escaped
           Q == Quotes(t, s)
<1>1. Len(t) \in Nat /\ last = Len(t) + 1 /\ f \in Nat /\ g \in Nat /\ f >= 1 /\ g >= f + 1 /\ g <= last
  BY BlockPlaces
<1>2. Block \in Nat /\ Block > 0 /\ at \in Nat /\ at >= f + 1 /\ at <= g /\ at + Block <= Len(t) + 1
  BY BlockPlaces
<1>3. Q \in SUBSET (0 .. (Block - 1)) /\ Q \in SUBSET Nat
  <2>1. Bits(t, s.at, "\"") \in SUBSET (0 .. (Block - 1))
    BY DEF Bits
  <2>2. Q \in SUBSET (0 .. (Block - 1))
    BY <2>1, Zenon DEF Quotes
  <2> HIDE DEF Q
  <2> QED
    BY <1>2, <2>2
<1>4. \A i \in 0 .. (Block - 1) : i \in Q <=> t[at + i] = "\"" /\ i \notin E
  <2> SUFFICES ASSUME NEW i \in 0 .. (Block - 1) PROVE i \in Q <=> t[at + i] = "\"" /\ i \notin E
    OBVIOUS
  <2>1. at + i \in 1 .. Len(t)
    <3> HIDE DEF at, E, Q
    <3>1. i \in Nat /\ i <= Block - 1
      BY <1>2
    <3> QED
      BY <1>1, <1>2, <3>1
  <2>2. At(t, s.at + i) = t[at + i]
    BY <2>1 DEF At
  <2> QED
    BY <2>2 DEF Quotes, Bits
<1>5. \A i \in 0 .. Block : at + i <= g /\ at + i <= Len(t) => (i \in E <=> Mode(t, c)[at + i] = "escaped")
  BY BlockEscapes
<1> HIDE DEF E, Q
<1>6. ASSUME NEW i \in 0 .. (Block - 1), at + i <= g
      PROVE  i \in Q <=> at + i = g
  <2>1. at + i \in (f + 1) .. g /\ at + i <= Len(t) /\ i \in 0 .. Block
    BY <1>1, <1>2, <1>6
  <2>2. IsInside(t, c, g, at + i)
    BY <2>1, Inside DEF WholeBlock
  <2>3. i \in E <=> Mode(t, c)[at + i] = "escaped"
    BY <1>5, <1>6, <2>1
  <2>4. i \in Q <=> t[at + i] = "\"" /\ Mode(t, c)[at + i] # "escaped"
    BY <1>4, <2>3
  <2> HIDE DEF at
  <2> QED
    BY <2>2, <2>4 DEF IsInside
<1>7. ASSUME Q = {} PROVE at + Block <= g
  <2> SUFFICES ASSUME ~ (at + Block <= g) PROVE FALSE
    OBVIOUS
  <2>1. g - at \in 0 .. (Block - 1) /\ at + (g - at) = g /\ at + (g - at) <= g
    BY <1>1, <1>2
  <2> QED
    BY <1>6, <1>7, <2>1
<1>8. ASSUME Q # {} PROVE at + Min(Q) = g /\ g <= Len(t)
  <2>1. Min(Q) \in Q /\ \A i \in Q : Min(Q) <= i
    BY <1>3, <1>8, MinIsLeast
  <2> DEFINE m == Min(Q)
  <2>2. m \in Q /\ m \in 0 .. (Block - 1) /\ m \in Nat
    BY <1>3, <2>1
  <2>3. \A i \in Q : m <= i
    BY <2>1
  <2> HIDE DEF m
  <2>4. CASE at + m <= g
    <3>1. at + m = g
      BY <1>6, <2>2, <2>4
    <3> QED
      BY <1>1, <1>2, <2>2, <3>1 DEF m
  <2>5. CASE ~ (at + m <= g)
    <3>1. g - at \in 0 .. (Block - 1) /\ at + (g - at) = g /\ at + (g - at) <= g /\ ~ (m <= g - at)
      BY <1>1, <1>2, <2>2, <2>5
    <3>2. g - at \in Q
      BY <1>6, <3>1
    <3> QED
      BY <2>3, <3>1, <3>2
  <2> QED
    BY <2>4, <2>5
<1> QED
  BY <1>7, <1>8 DEF Q

(***************************************************************************)
(* What is noted of a block is not behind the first escape.                *)
(***************************************************************************)
LEMMA BlockNotes ==
  ASSUME NEW t, NEW c, NEW f, NEW g, NEW last, NEW s, WholeBlock(t, c, f, g, last, s)
  PROVE  NotesOf(t, f, g, s.at + Block, Noted(t, s))
<1> DEFINE at == s.at
           A == Bits(t, s.at, "\\")
<1>1. Len(t) \in Nat /\ last = Len(t) + 1 /\ f \in Nat /\ g \in Nat /\ f >= 1 /\ g >= f + 1 /\ g <= last
  BY BlockPlaces
<1>2. Block \in Nat /\ Block > 0 /\ at \in Nat /\ at >= f + 1 /\ at <= g /\ at + Block <= Len(t) + 1 /\ s.note \in Int
  BY BlockPlaces
<1>3. A \in SUBSET (0 .. (Block - 1)) /\ A \in SUBSET Nat
  BY <1>2 DEF Bits
<1>4. \A i \in 0 .. (Block - 1) : i \in A <=> t[at + i] = "\\"
  <2> SUFFICES ASSUME NEW i \in 0 .. (Block - 1) PROVE i \in A <=> t[at + i] = "\\"
    OBVIOUS
  <2>1. at + i \in 1 .. Len(t)
    <3> HIDE DEF at, A
    <3>1. i \in Nat /\ i <= Block - 1
      BY <1>2
    <3> QED
      BY <1>1, <1>2, <3>1
  <2>2. At(t, s.at + i) = t[at + i]
    BY <2>1 DEF At
  <2> QED
    BY <2>2 DEF Bits
<1>5. NotesOf(t, f, g, at, s.note)
  BY DEF WholeBlock, BlockAt
<1>6. Noted(t, s) = IF A # {} /\ s.note < 0 THEN Min(A) ELSE s.note
  BY Zenon DEF Noted
<1> HIDE DEF A, at
<1> SUFFICES ASSUME g = Len(t)
             PROVE  IF Noted(t, s) < 0 THEN NoneTo(t, f, at + Block)
                    ELSE \E m \in PlainTo(t, f, g) : t[m] = "\\" /\ f + 1 + Noted(t, s) <= m
  BY Zenon DEF NotesOf, at
<1>7. IF s.note < 0 THEN NoneTo(t, f, at) ELSE \E m \in PlainTo(t, f, g) : t[m] = "\\" /\ f + 1 + s.note <= m
  BY <1>5, Zenon DEF NotesOf
<1>8. CASE ~ (s.note < 0)
  BY <1>6, <1>7, <1>8, Zenon
<1>9. CASE s.note < 0 /\ A = {}
  <2>1. Noted(t, s) = s.note /\ NoneTo(t, f, at)
    BY <1>6, <1>7, <1>9, Zenon
  <2>2. \A p \in (f + 1) .. ((at + Block) - 1) : p \in (f + 1) .. (at - 1) \/ (p - at \in 0 .. (Block - 1) /\ at + (p - at) = p)
    BY <1>1, <1>2
  <2>3. NoneTo(t, f, at + Block)
    BY <1>4, <1>9, <2>1, <2>2 DEF NoneTo
  <2> QED
    BY <1>9, <2>1, <2>3
<1>10. CASE s.note < 0 /\ A # {}
  <2> DEFINE i == Min(A)
  <2>1. i \in A /\ \A j \in A : i <= j
    BY <1>3, <1>10, MinIsLeast
  <2>2. Noted(t, s) = i /\ NoneTo(t, f, at)
    BY <1>6, <1>7, <1>10, Zenon
  <2> HIDE DEF i
  <2>3. i \in 0 .. (Block - 1) /\ i \in Nat /\ ~ (i < 0)
    BY <1>2, <1>3, <2>1
  <2>4. t[at + i] = "\\"
    BY <1>4, <2>1, <2>3
  <2>5. NoneTo(t, f, at + i)
    <3>1. ASSUME NEW p \in (f + 1) .. ((at + i) - 1) PROVE t[p] # "\\"
      <4>1. CASE p \in (f + 1) .. (at - 1)
        BY <2>2, <4>1 DEF NoneTo
      <4>2. CASE p \notin (f + 1) .. (at - 1)
        <5>1. p - at \in 0 .. (Block - 1) /\ at + (p - at) = p /\ ~ (i <= p - at)
          BY <1>1, <1>2, <2>3, <4>2
        <5>2. p - at \notin A
          BY <2>1, <5>1
        <5> QED
          BY <1>4, <5>1, <5>2
      <4> QED
        BY <4>1, <4>2
    <3> QED
      BY <3>1 DEF NoneTo
  <2>6. at + i \in (f + 1) .. g /\ f + 1 + i <= at + i
    BY <1>1, <1>2, <2>3
  <2>7. at + i \in PlainTo(t, f, g)
    BY <2>5, <2>6 DEF PlainTo
  <2> QED
    BY <2>2, <2>3, <2>4, <2>6, <2>7, Zenon
<1> QED
  BY <1>8, <1>9, <1>10

(***************************************************************************)
(* Without a quote the next block is looked at, in such a state ...        *)
(***************************************************************************)
LEMMA BlockOn ==
  ASSUME NEW t, NEW c, NEW f, NEW g, NEW last, NEW s, WholeBlock(t, c, f, g, last, s), Quotes(t, s) = {}
  PROVE  BlockAt(t, c, f, g, NextBlock(t, s))
<1>1. Len(t) \in Nat /\ last = Len(t) + 1 /\ f \in Nat /\ g \in Nat /\ f >= 1 /\ g >= f + 1 /\ g <= last
  BY BlockPlaces
<1>2. Block \in Nat /\ Block > 0 /\ s.at \in Nat /\ s.at >= f + 1 /\ s.at <= g /\ s.at + Block <= Len(t) + 1 /\ s \in States(t)
  BY BlockPlaces
<1>3. NextBlock(t, s).at = s.at + Block /\ NextBlock(t, s).carry = Escaping(t, s).carry /\ NextBlock(t, s).note = Noted(t, s)
  BY DEF NextBlock
<1>4. NextBlock(t, s) \in States(t)
  <2>1. ~ (last - s.at < Block)
    BY DEF WholeBlock
  <2> QED
    BY <1>1, <1>2, <2>1, NextState DEF NextBlock
<1>5. s.at + Block <= g
  BY BlockQuotes
<1>6. ((s.at + Block) - (f + 1)) % Block = 0
  <2>1. ASSUME NEW x \in Nat, x % Block = 0 PROVE (x + Block) % Block = 0
    <3>1. CASE Block = 2
      BY <2>1, <3>1
    <3>2. CASE Block = 4
      BY <2>1, <3>2
    <3>3. CASE Block = 8
      BY <2>1, <3>3
    <3>4. CASE Block = 16
      BY <2>1, <3>4
    <3> QED
      BY <3>1, <3>2, <3>3, <3>4, BlockAssumption
  <2>2. s.at - (f + 1) \in Nat /\ (s.at - (f + 1)) + Block = (s.at + Block) - (f + 1)
    BY <1>1, <1>2
  <2>3. (s.at - (f + 1)) % Block = 0
    BY DEF WholeBlock, BlockAt
  <2>4. ((s.at - (f + 1)) + Block) % Block = 0
    BY <2>1, <2>2, <2>3, Zenon
  <2> QED
    BY <2>2, <2>4
<1>7. s.at + Block <= Len(t) => (Escaping(t, s).carry = {0} <=> Mode(t, c)[s.at + Block] = "escaped")
  <2>1. Block \in 0 .. Block
    BY <1>2
  <2> QED
    BY <1>5, <2>1, BlockEscapes
<1>8. s.at + Block \in (f + 1) .. g
  BY <1>1, <1>2, <1>5
<1>9. NotesOf(t, f, g, s.at + Block, Noted(t, s))
  BY BlockNotes
<1> QED
  <2> DEFINE x == NextBlock(t, s)
  <2>1. x \in States(t) /\ x.at \in (f + 1) .. g /\ (x.at - (f + 1)) % Block = 0
    BY <1>3, <1>4, <1>6, <1>8, Zenon
  <2>2. x.at <= Len(t) => (x.carry = {0} <=> Mode(t, c)[x.at] = "escaped")
    BY <1>3, <1>7
  <2>3. NotesOf(t, f, g, x.at, x.note)
    BY <1>3, <1>9
  <2> HIDE DEF x
  <2>4. BlockAt(t, c, f, g, x)
    BY <2>1, <2>2, <2>3, Zenon DEF BlockAt
  <2> QED
    BY <2>4 DEF x

(***************************************************************************)
(* ... and its note is of what is not behind the first escape.             *)
(***************************************************************************)
LEMMA NotesAreRight ==
  ASSUME NEW t, NEW c, NEW f, NEW g, NEW last, StringAt(t, c, f, g, last), g <= Len(t),
         NEW q, NEW note \in Int, NotesOf(t, f, g, q, note), g = Len(t) => note >= 0
  PROVE  NoteIs(t, c, f, g, "block", note)
<1>1. Len(t) \in Nat /\ f \in Nat /\ g \in Nat
  BY DEF StringAt
<1>2. ~ (g + 1 <= Len(t)) => g = Len(t) /\ ~ (note < 0)
  BY <1>1
<1>3. "block" \notin {"constant", "strict"}
  OBVIOUS
<1>4. ASSUME g = Len(t), ~ (note < 0)
      PROVE  Escapes(t, c, f, g) # {} /\ \A p \in Escapes(t, c, f, g) : f + 1 + note <= p
  <2>1. PICK m \in PlainTo(t, f, g) : t[m] = "\\" /\ f + 1 + note <= m
    BY <1>4, Zenon DEF NotesOf
  <2>2. m \in Escapes(t, c, f, g) /\ \A p \in Escapes(t, c, f, g) : m <= p
    BY <2>1, FirstBackslash
  <2>3. Escapes(t, c, f, g) \in SUBSET Nat /\ m \in Nat
    BY <1>1, <2>2 DEF Escapes
  <2>4. \A p \in Escapes(t, c, f, g) : f + 1 + note <= p
    <3> SUFFICES ASSUME NEW p \in Escapes(t, c, f, g) PROVE f + 1 + note <= p
      OBVIOUS
    <3>1. m <= p /\ f + 1 + note <= m /\ p \in Nat /\ m \in Nat
      BY <2>1, <2>2, <2>3
    <3> QED
      BY <1>1, <3>1
  <2> QED
    BY <2>2, <2>4
<1> QED
  BY <1>2, <1>3, <1>4, Zenon DEF NoteIs

(***************************************************************************)
(* The quote found in a block is the one that closes the string.           *)
(***************************************************************************)
LEMMA BlockFinds ==
  ASSUME NEW t, NEW c, NEW f, NEW g, NEW last, NEW s, WholeBlock(t, c, f, g, last, s), Quotes(t, s) # {}
  PROVE  IsAnswer(t, c, f, g, "block", [end |-> s.at + Min(Quotes(t, s)), escape |-> Noted(t, s)])
<1> DEFINE found == [end |-> s.at + Min(Quotes(t, s)), escape |-> Noted(t, s)]
<1>1. s.at + Min(Quotes(t, s)) = g /\ g <= Len(t)
  BY BlockQuotes
<1>2. StringAt(t, c, f, g, last)
  BY DEF WholeBlock
<1>3. Len(t) \in Nat /\ f \in Nat /\ g \in Nat /\ Block \in Nat /\ Block > 0 /\ g >= f + 1
      /\ s.at \in Nat /\ s.at + Block <= Len(t) + 1 /\ s.note \in Int
  BY BlockPlaces
<1>4. At(t, g) = "\""
  <2>1. g \in (f + 1) .. g
    BY <1>3
  <2>2. IsInside(t, c, g, g)
    BY <1>1, <1>2, <2>1, Inside
  <2> QED
    BY <2>2 DEF IsInside
<1>5. NotesOf(t, f, g, s.at + Block, Noted(t, s))
  BY BlockNotes
<1>6. Noted(t, s) \in Int
  <2>1. NextBlock(t, s) \in States(t)
    <3>1. ~ (last - s.at < Block) /\ last = Len(t) + 1 /\ s \in States(t)
      BY BlockPlaces DEF WholeBlock
    <3> QED
      BY <1>3, <3>1, NextState DEF NextBlock
  <2>2. NextBlock(t, s).note = Noted(t, s)
    BY DEF NextBlock
  <2> QED
    BY <1>3, <2>1, <2>2 DEF States
<1>7. NoteIs(t, c, f, g, "block", Noted(t, s))
  <2>1. CASE Noted(t, s) >= 0
    BY <1>1, <1>2, <1>5, <1>6, <2>1, NotesAreRight
  <2>2. CASE ~ (Noted(t, s) >= 0)
    <3>1. "block" \notin {"constant", "strict"}
      OBVIOUS
    <3> QED
      BY <2>2, <3>1, Zenon DEF NoteIs
  <2> QED
    BY <2>1, <2>2
<1>8. found.end = g /\ found.escape = Noted(t, s)
  BY <1>1
<1>9. "block" # "strict"
  OBVIOUS
<1> HIDE DEF found
<1>10. IsEndOf(t, g, found.end)
  BY <1>1, <1>4, <1>8, Zenon DEF IsEndOf
<1>11. IsAnswer(t, c, f, g, "block", found)
  BY <1>7, <1>8, <1>9, <1>10, Zenon DEF IsAnswer
<1> QED
  BY <1>11 DEF found

(***************************************************************************)
(* The search of the last characters goes on where a character is that is  *)
(* not escaped.                                                            *)
(***************************************************************************)
LEMMA LastFinds ==
  ASSUME NEW t, NEW c, NEW f, NEW g, NEW last, StringAt(t, c, f, g, last), NoSplit(t, c, f, last),
         NEW s, BlockAt(t, c, f, g, s), last - s.at < Block, NEW b
  PROVE  IsAnswer(t, c, f, g, "block", LastSearch(t, f + 1, last, b, s.at, s.note))
<1> DEFINE at == s.at
           r == InRange(b)
           found == End(t, last, r)[at]
           e == FirstEscape(t, last, r)[at]
           answer == LastSearch(t, f + 1, last, b, s.at, s.note)
<1>1. Len(t) \in Nat /\ last = Len(t) + 1 /\ f \in Nat /\ f >= 1 /\ g \in Nat /\ g >= f + 1 /\ g <= last
  BY DEF StringAt
<1>2. Block \in Nat /\ Block > 0
  BY BlockType
<1>3. s \in States(t) /\ at \in (f + 1) .. g /\ (at - (f + 1)) % Block = 0 /\ NotesOf(t, f, g, at, s.note)
  BY DEF BlockAt
<1>4. at \in Nat /\ s.note \in Int /\ at <= g
  BY <1>1, <1>2, <1>3 DEF States
<1>5. at <= Len(t) => Mode(t, c)[at] # "escaped"
  <2> SUFFICES ASSUME at <= Len(t), Mode(t, c)[at] = "escaped" PROVE FALSE
    OBVIOUS
  <2>1. at \in (f + 1) .. Len(t)
    BY <1>1, <1>3
  <2>2. \A q \in (f + 1) .. (at - 1) : q \in (f + 1) .. (g - 1)
    BY <1>1, <1>3, <1>4
  <2>3. \A q \in (f + 1) .. (at - 1) : Mode(t, c)[q] # "open"
    BY <2>2 DEF StringAt
  <2> HIDE DEF at
  <2> QED
    BY <1>3, <2>1, <2>3, Zenon DEF NoSplit, at
<1>6. at \in Reached(t, c, f, g, last)
  <2>1. at \in (f + 1) .. (last + 1) /\ (~ (at <= Len(t)) => g = last)
    BY <1>1, <1>3, <1>4
  <2> QED
    BY <1>4, <1>5, <2>1 DEF Reached
<1>7. IsEndOf(t, g, found)
  <2>1. EndsAt(t, g, last, r, at)
    BY <1>6, EndIsRight
  <2> QED
    BY <2>1 DEF EndsAt
<1>8. answer.end = (IF b # "none" /\ found > last THEN last ELSE found)
      /\ answer.escape = IF s.note < 0 THEN Note(e, (f + 1) - e) ELSE s.note
  BY DEF LastSearch
<1> HIDE DEF found, at, r, answer, e
<1>9. IsEndOf(t, g, answer.end)
  <2>1. CASE g <= Len(t)
    <3>1. found = g
      BY <1>7, <2>1, Zenon DEF IsEndOf
    <3>2. ~ (found > last)
      BY <1>1, <3>1
    <3> QED
      BY <1>7, <1>8, <3>2
  <2>2. CASE ~ (g <= Len(t))
    <3>1. last \notin 1 .. Len(t)
      BY <1>1
    <3>2. At(t, last) # "\""
      BY <3>1 DEF At, NUL
    <3>3. At(t, found) # "\""
      BY <1>7, <2>2, Zenon DEF IsEndOf
    <3>4. At(t, answer.end) # "\""
      BY <1>8, <3>2, <3>3, Zenon
    <3> QED
      BY <2>2, <3>4, Zenon DEF IsEndOf
  <2> QED
    BY <2>1, <2>2
<1>10. ASSUME g <= Len(t) PROVE NoteIs(t, c, f, g, "block", answer.escape)
  <2>1. CASE ~ (s.note < 0)
    <3>1. answer.escape = s.note /\ s.note >= 0
      BY <1>4, <1>8, <2>1
    <3> QED
      BY <1>3, <1>4, <1>10, <3>1, NotesAreRight
  <2>2. CASE s.note < 0 /\ g = Len(t)
    <3>1. NoneTo(t, f, at)
      BY <1>3, <2>2, Zenon DEF NotesOf
    <3>2. at \in PlainTo(t, f, g)
      BY <1>3, <3>1 DEF PlainTo
    <3>3. IsFirstEscape(t, c, f, g, e)
      BY <1>10, <3>2, FirstEscapeIsRight DEF e
    <3>4. NoteIs(t, c, f, g, "runtime", answer.escape)
      BY <1>1, <1>8, <2>2, <3>3, NoteOfFirst
    <3>5. "runtime" # "block" /\ "block" \notin {"constant", "strict"}
      OBVIOUS
    <3> QED
      BY <3>4, <3>5, Zenon DEF NoteIs
  <2>3. CASE g # Len(t)
    <3>1. g + 1 <= Len(t)
      BY <1>1, <1>10, <2>3
    <3>2. "block" \notin {"constant", "strict"}
      OBVIOUS
    <3> QED
      BY <3>1, <3>2, Zenon DEF NoteIs
  <2> QED
    BY <2>1, <2>2, <2>3
<1>11. "block" # "strict"
  OBVIOUS
<1>12. IsAnswer(t, c, f, g, "block", answer)
  BY <1>9, <1>10, <1>11, Zenon DEF IsAnswer
<1> QED
  BY <1>12 DEF answer

(***************************************************************************)
(* ... and searching by blocks find the same end.                          *)
(***************************************************************************)
LEMMA BlockSearchAnswers ==
  ASSUME NEW t, NEW c, NEW f, NEW g, NEW last, StringAt(t, c, f, g, last), NoSplit(t, c, f, last), NEW b
  PROVE  IsAnswer(t, c, f, g, "block", BlockSearch(t, f + 1, last, b))
<1> DEFINE P == {s \in States(t) : BlockAt(t, c, f, g, s)}
           a == [at |-> f + 1, carry |-> {}, note |-> -1]
<1>1. Len(t) \in Nat /\ last = Len(t) + 1 /\ f \in Nat /\ f >= 1 /\ f <= Len(t) /\ g \in Nat /\ g >= f + 1 /\ g <= last
  BY DEF StringAt
<1>2. Block \in Nat /\ Block > 0
  BY BlockType
<1>3. BlockAt(t, c, f, g, a)
  <2>1. f + 1 \in PlainTo(t, f, g)
    BY WordsArePlain
  <2>2. NoneTo(t, f, f + 1) /\ f + 1 \in (f + 1) .. g
    BY <2>1 DEF PlainTo
  <2>3. f + 1 <= Len(t) => Mode(t, c)[f + 1] \in {"in", "close"}
    BY <2>1, PlainReached
  <2>4. a.at = f + 1 /\ a.carry = {} /\ a.note = -1 /\ -1 < 0
    OBVIOUS
  <2>5. a \in States(t)
    <3>1. f + 1 \in 1 .. (Len(t) + 3) /\ {} \in SUBSET {0} /\ -1 \in -1 .. (Block - 1)
      BY <1>1, <1>2
    <3> QED
      BY <3>1 DEF States
  <2>6. ((f + 1) - (f + 1)) % Block = 0
    <3>1. (f + 1) - (f + 1) = 0
      BY <1>1
    <3>2. 0 % Block = 0
      BY BlockAssumption
    <3> QED
      BY <3>1, <3>2
  <2>7. NotesOf(t, f, g, f + 1, -1)
    BY <2>2, <2>4, Zenon DEF NotesOf
  <2>8. {} # {0} /\ "escaped" \notin {"in", "close"}
    OBVIOUS
  <2>9. f + 1 <= Len(t) => ({} = {0} <=> Mode(t, c)[f + 1] = "escaped")
    BY <2>3, <2>8
  <2> HIDE DEF a
  <2> QED
    BY <2>2, <2>4, <2>5, <2>6, <2>7, <2>9, Zenon DEF BlockAt
<1>4. \A s \in P : ~ BlockStops(t, last, s) => NextBlock(t, s) \in P
  <2> SUFFICES ASSUME NEW s \in P, ~ BlockStops(t, last, s) PROVE NextBlock(t, s) \in P
    OBVIOUS
  <2>1. ~ (last - s.at < Block) /\ Quotes(t, s) = {}
    BY Zenon DEF BlockStops
  <2>2. WholeBlock(t, c, f, g, last, s)
    BY <2>1, Zenon DEF WholeBlock
  <2>3. BlockAt(t, c, f, g, NextBlock(t, s))
    BY <2>1, <2>2, BlockOn
  <2> QED
    BY <2>3 DEF BlockAt
<1>5. a \in P
  BY <1>3, Zenon DEF BlockAt
<1>6. PICK s \in P : /\ BlockStops(t, last, s)
                     /\ ByBlocks(t, f + 1, last, b)[a] = BlockAnswer(t, f + 1, last, b, s)
  <2> HIDE DEF a
  <2>1. P \subseteq States(t)
    OBVIOUS
  <2> HIDE DEF P
  <2>2. StaysIn(P, t, last)
    BY <1>1, <1>4, <2>1 DEF StaysIn
  <2>3. AnswersFrom(P, t, f + 1, last, b, a)
    BY <1>5, <2>2, BlocksFind
  <2> QED
    BY <2>3 DEF AnswersFrom
<1>7. BlockSearch(t, f + 1, last, b) = BlockAnswer(t, f + 1, last, b, s)
  BY <1>6, Zenon DEF BlockSearch
<1>8. BlockAt(t, c, f, g, s)
  OBVIOUS
<1> HIDE DEF P, a
<1>9. CASE last - s.at < Block
  <2>1. BlockSearch(t, f + 1, last, b) = LastSearch(t, f + 1, last, b, s.at, s.note)
    BY <1>7, <1>9, Zenon DEF BlockAnswer
  <2>2. IsAnswer(t, c, f, g, "block", LastSearch(t, f + 1, last, b, s.at, s.note))
    BY <1>8, <1>9, LastFinds
  <2> QED
    BY <2>1, <2>2, Zenon
<1>10. CASE ~ (last - s.at < Block)
  <2>1. BlockSearch(t, f + 1, last, b) = [end |-> s.at + Min(Quotes(t, s)), escape |-> Noted(t, s)]
    BY <1>7, <1>10, Zenon DEF BlockAnswer
  <2>2. WholeBlock(t, c, f, g, last, s)
    BY <1>8, <1>10, Zenon DEF WholeBlock
  <2>3. Quotes(t, s) # {}
    BY <1>6, <1>10, Zenon DEF BlockStops
  <2> QED
    BY <2>1, <2>2, <2>3, BlockFinds
<1> QED
  BY <1>9, <1>10

(* The answer of a search of some kind is right.                           *)
Answers(t, c, f, g, last, how, b) == IsAnswer(t, c, f, g, how, Search(how, t, f + 1, last, b))

(***************************************************************************)
(* However it is searched for, the quote found is the one that closes the  *)
(* string, and what is noted of escapes is right.                          *)
(***************************************************************************)
LEMMA SearchIsRight ==
  ASSUME NEW t, NEW c, NEW f, NEW g, NEW last, StringAt(t, c, f, g, last), NEW b,
         NEW how \in {"constant", "strict", "runtime", "block"}, how = "block" => NoSplit(t, c, f, last)
  PROVE  Answers(t, c, f, g, last, how, b)
<1>1. CASE how = "constant"
  <2>1. Search(how, t, f + 1, last, b) = ConstantSearch(t, f + 1, last, b)
    BY <1>1, Zenon DEF Search
  <2> QED
    BY <1>1, <2>1, SearchesAnswer DEF Answers
<1>2. CASE how = "strict"
  <2>1. Search("strict", t, f + 1, last, b) = StrictSearch(t, f + 1, last, b)
    BY DEF Search
  <2> QED
    BY <1>2, <2>1, SearchesAnswer DEF Answers
<1>3. CASE how = "runtime"
  <2>1. Search("runtime", t, f + 1, last, b) = RuntimeSearch(t, f + 1, last, b)
    BY DEF Search
  <2> QED
    BY <1>3, <2>1, SearchesAnswer DEF Answers
<1>4. CASE how = "block"
  <2>1. Search("block", t, f + 1, last, b) = BlockSearch(t, f + 1, last, b)
    BY DEF Search
  <2>2. IsAnswer(t, c, f, g, "block", BlockSearch(t, f + 1, last, b))
    BY <1>4, BlockSearchAnswers
  <2> QED
    BY <1>4, <2>1, <2>2 DEF Answers
<1> QED
  BY <1>1, <1>2, <1>3, <1>4

(***************************************************************************)
(* Every string has an end, be it that of the text.                        *)
(***************************************************************************)
LEMMA StringExists ==
  ASSUME Given, NEW f \in 1 .. Len(text), Mode(text, comments)[f] = "open"
  PROVE  \E g \in (f + 1) .. Last : StringAt(text, comments, f, g, Last)
<1> DEFINE N == {q \in (f + 1) .. Last : q = Last \/ Mode(text, comments)[q] \notin {"in", "escaped"}}
<1>1. Len(text) \in Nat /\ Last \in Nat /\ Last = Len(text) + 1 /\ f \in Nat /\ f >= 1 /\ f <= Len(text)
  BY LastType
<1>2. Last \in N /\ N \in SUBSET Nat
  BY <1>1
<1>3. PICK g \in N : \A q \in N : g <= q
  <2> HIDE DEF N
  <2> QED
    BY <1>2, LeastExists
<1>4. g \in (f + 1) .. Last /\ g \in Nat /\ (g = Last \/ Mode(text, comments)[g] \notin {"in", "escaped"})
  BY <1>1
<1>5. \A q \in (f + 1) .. (g - 1) : Mode(text, comments)[q] \in {"in", "escaped"}
  <2> SUFFICES ASSUME NEW q \in (f + 1) .. (g - 1), Mode(text, comments)[q] \notin {"in", "escaped"}
               PROVE  FALSE
    OBVIOUS
  <2>1. q \in (f + 1) .. Last /\ ~ (g <= q)
    BY <1>1, <1>4
  <2> QED
    BY <1>3, <2>1
<1>6. ASSUME g <= Len(text) PROVE Mode(text, comments)[g] = "close"
  <2>1. g \in 2 .. Len(text) /\ g # Last
    BY <1>1, <1>4, <1>6
  <2>2. Mode(text, comments)[g] = ModeAfter(text, comments, Mode(text, comments)[g - 1], g)
    BY <1>1, <2>1, OpenIs
  <2>3. g - 1 = f \/ g - 1 \in (f + 1) .. (g - 1)
    BY <1>1, <1>4
  <2>4. Mode(text, comments)[g - 1] \in InString
    BY <1>5, <2>3 DEF InString
  <2>5. Mode(text, comments)[g] \in {"in", "escaped", "close"}
    BY <2>2, <2>4, AfterString
  <2> QED
    BY <1>4, <2>1, <2>5
<1>7. \A p \in 1 .. Len(text) : text[p] # NUL
  BY Zenon DEF Given
<1>8. StringAt(text, comments, f, g, Last)
  BY <1>1, <1>4, <1>5, <1>6, <1>7 DEF StringAt
<1> QED
  BY <1>4, <1>8

(***************************************************************************)
(* Texts that IsSplit excludes are those in which a string is split.       *)
(***************************************************************************)
LEMMA SplitIs ==
  ASSUME Given, ~ IsSplit, NEW f \in 1 .. Len(text), Mode(text, comments)[f] = "open"
  PROVE  NoSplit(text, comments, f, Last)
<1> DEFINE mode == Mode(text, comments)
           opens == {q \in 1 .. Len(text) : mode[q] = "open"}
<1>1. Len(text) \in Nat /\ f \in Nat /\ f >= 1 /\ f <= Len(text) /\ Last \in Nat
  BY LastType
<1> SUFFICES ASSUME NEW p \in (f + 1) .. Len(text), Last - p < Block, mode[p] = "escaped",
                    \A q \in (f + 1) .. (p - 1) : mode[q] # "open",
                    (p - (f + 1)) % Block = 0
             PROVE  FALSE
  BY Zenon DEF NoSplit
<1>2. p \in Nat /\ p \in 1 .. Len(text) /\ f < p /\ f \in 1 .. Len(text)
  BY <1>1
<1> DEFINE before == {q \in opens : q < p}
<1>3. f \in before
  BY <1>2
<1>4. \A q \in before : q \in Nat /\ f >= q
  <2> SUFFICES ASSUME NEW q \in before PROVE q \in Nat /\ f >= q
    OBVIOUS
  <2>1. q \in Nat /\ q < p /\ mode[q] = "open" /\ q \in 1 .. Len(text)
    BY <1>1
  <2>2. q \notin (f + 1) .. (p - 1)
    BY <2>1
  <2> HIDE DEF mode
  <2> QED
    BY <1>1, <1>2, <2>1, <2>2
<1>5. Max(before) = f
  <2> DEFINE m == Max(before)
  <2> HIDE DEF before
  <2>1. \E x \in before : \A y \in before : x >= y
    BY <1>3, <1>4
  <2>2. m \in before /\ \A y \in before : m >= y
    BY <2>1, Zenon DEF Max
  <2>3. m \in Nat /\ m >= f /\ f >= m
    BY <1>3, <1>4, <2>2
  <2> HIDE DEF m
  <2>4. m = f
    BY <1>1, <2>3
  <2> QED
    BY <2>4 DEF m
<1>6. (p - Max(before) - 1) % Block = 0
  <2>1. (p - f) - 1 = p - (f + 1)
    BY <1>1, <1>2
  <2> HIDE DEF before
  <2> QED
    BY <1>5, <2>1
<1>7. IsSplit
  BY <1>2, <1>6, Zenon DEF IsSplit
<1> QED
  BY <1>7

(***************************************************************************)
(* skip_string begins behind a quote that opens a string.                  *)
(***************************************************************************)
LEMMA CallOpens ==
  ASSUME Given, call = "string"
  PROVE  1 \in 1 .. Len(text) /\ Mode(text, comments)[1] = "open" /\ start = 2
<1>1. Len(text) \in Nat /\ 1 \in 1 .. Len(text)
  BY LastType
<1>2. text[1] = "\"" /\ call # "item"
  BY DEF Given
<1>3. Mode(text, comments)[1] = ModeAfter(text, comments, Before(Mode(text, comments), 1), 1)
  BY <1>1, ModeIs
<1>4. Before(Mode(text, comments), 1) = "code"
  BY DEF Before
<1>5. Mode(text, comments)[1] = Fresh(text, comments, 1)
  BY <1>3, <1>4, AfterCode
<1>6. start = 2
  BY <1>2, Zenon DEF Given
<1>7. Fresh(text, comments, 1) = "open"
  BY <1>2 DEF Fresh
<1> QED
  BY <1>1, <1>5, <1>6, <1>7, Zenon

(***************************************************************************)
(* It ends behind the quote that closes it.                                *)
(***************************************************************************)
LEMMA SkipStringFinds ==
  ASSUME Inv, SkipString
  PROVE  SkipsToQuote'
<1> DEFINE mode == Mode(text, comments)
           closing == {p \in 2 .. Len(text) : mode[p] = "close"}
           escapes == {p \in 2 .. (Min(closing) - 1) : mode[p + 1] = "escaped"}
           found == Search(exec, text, first, Last, bound)
<1>1. call = "string" /\ phase = "called" /\ Given /\ start = 2 /\ first = 2 /\ exec \in {"constant", "strict", "runtime", "block"}
  <2>1. call = "string" /\ phase = "called" /\ Given
    BY DEF SkipString, Inv
  <2>2. first = start
    BY <2>1 DEF Inv, Cursor
  <2>3. exec \in {"constant", "strict", "runtime", "block"}
    BY <2>1, Zenon DEF Given
  <2> QED
    BY <2>1, <2>2, <2>3, CallOpens
<1>2. Len(text) \in Nat /\ Last \in Nat /\ Last = Len(text) + 1
  BY <1>1, LastType
<1>3. PICK g \in (1 + 1) .. Last : StringAt(text, comments, 1, g, Last)
  BY <1>1, CallOpens, StringExists
<1>4. g \in Nat /\ g >= 2 /\ g <= Last
  BY <1>2
<1>5. /\ cnt' = found.escape /\ UNCHANGED given
      /\ IF At(text, found.end) = "\"" THEN Return(found.end + 1)
         ELSE IF bound # "range" /\ found.end > Last THEN Move(found.end) ELSE Fail
  <2>1. IF At(text, found.end) = "\"" THEN Return(found.end + 1)
        ELSE IF bound # "range" /\ found.end > Last THEN Move(found.end) ELSE Fail
    BY Zenon DEF SkipString
  <2>2. cnt' = found.escape
    BY Zenon DEF SkipString
  <2>3. UNCHANGED given
    BY <2>1, Zenon DEF Return, Move, Fail
  <2> QED
    BY <2>1, <2>2, <2>3
<1>6. /\ call' = call /\ text' = text /\ comments' = comments /\ exec' = exec /\ start' = start /\ bound' = bound
  BY <1>5 DEF given
<1>7. IsSplit' = IsSplit
  BY <1>6, Zenon DEF IsSplit, Last
<1> SUFFICES ASSUME exec = "block" => ~ IsSplit
             PROVE  SkipsToQuote'
  BY <1>6, <1>7, Zenon DEF SkipsToQuote
<1>8. IsAnswer(text, comments, 1, g, exec, found)
  <2>1. exec = "block" => NoSplit(text, comments, 1, Last)
    BY <1>1, CallOpens, SplitIs
  <2>2. Answers(text, comments, 1, g, Last, exec, bound)
    BY <1>1, <1>3, <2>1, SearchIsRight
  <2>3. 1 + 1 = 2
    OBVIOUS
  <2> QED
    BY <1>1, <2>2, <2>3, Zenon DEF Answers
<1>9. \A q \in 2 .. Len(text) : q < g => mode[q] # "close"
  <2> SUFFICES ASSUME NEW q \in 2 .. Len(text), q < g PROVE mode[q] # "close"
    OBVIOUS
  <2>1. q \in (1 + 1) .. (g - 1)
    BY <1>2, <1>4
  <2>2. mode[q] \in {"in", "escaped"}
    BY <1>3, <2>1 DEF StringAt
  <2> QED
    BY <2>2
<1> HIDE DEF found
<1>10. CASE ~ (g <= Len(text))
  <2>1. closing = {}
    BY <1>2, <1>4, <1>9, <1>10
  <2>2. At(text, found.end) # "\""
    <3>1. found.end = 0 => At(text, found.end) = NUL
      BY DEF At
    <3>2. ~ (found.end = 0) => At(text, found.end) # "\""
      BY <1>8, <1>10, Zenon DEF IsAnswer, IsEndOf
    <3> QED
      BY <3>1, <3>2 DEF NUL
  <2>3. phase' # "done"
    BY <1>1, <1>5, <2>2 DEF Move, Fail
  <2> QED
    BY <1>6, <2>1, <2>3, Zenon DEF SkipsToQuote
<1>11. CASE g <= Len(text)
  <2>1. mode[g] = "close" /\ g \in 2 .. Len(text)
    BY <1>2, <1>3, <1>4, <1>11 DEF StringAt
  <2>2. g \in closing /\ closing \in SUBSET Nat
    BY <2>1
  <2>3. Min(closing) = g
    <3> DEFINE m == Min(closing)
    <3>1. m \in closing /\ m <= g
      <4> HIDE DEF closing
      <4> QED
        BY <2>2, MinIsLeast
    <3>2. m \in Nat /\ ~ (m < g)
      BY <1>9, <3>1
    <3> HIDE DEF m
    <3>3. m = g
      BY <1>4, <3>1, <3>2
    <3> QED
      BY <3>3 DEF m
  <2>4. escapes = Escapes(text, comments, 1, g)
    <3>1. 1 + 1 = 2
      OBVIOUS
    <3> QED
      BY <2>3, <3>1, Zenon DEF Escapes
  <2>5. NoteIs(text, comments, 1, g, exec, cnt')
    BY <1>5, <1>8, <1>11, Zenon DEF IsAnswer
  <2>6. CASE At(text, found.end) = "\""
    <3>1. found.end # 0
      <4>1. At(text, 0) = NUL
        BY DEF At
      <4> QED
        BY <2>6, <4>1 DEF NUL
    <3>2. IsEndOf(text, g, found.end)
      BY <1>8, <3>1, Zenon DEF IsAnswer
    <3>3. found.end = g
      BY <1>11, <3>2, Zenon DEF IsEndOf
    <3>4. first' = g + 1 /\ phase' = "done"
      BY <1>5, <2>6, <3>3, Zenon DEF Return
    <3>5. exec = "strict" => \A p \in escapes : text[p + 1] \in Escapable
      BY <1>8, <1>11, <2>4, <3>1, Zenon DEF IsAnswer
    <3>6. /\ (exec = "block" /\ first' <= Len(text)) \/ (cnt' >= 0 => escapes # {} /\ \A p \in escapes : start + cnt' <= p)
          /\ exec \in {"constant", "strict"} => IF escapes = {} THEN cnt' < 0 ELSE start + cnt' = Min(escapes)
      <4>1. 1 + 1 = start
        BY <1>1
      <4> HIDE DEF escapes
      <4> QED
        BY <2>4, <2>5, <3>4, <4>1, Zenon DEF NoteIs
    <3> DEFINE closing2 == closing
               escapes2 == escapes
    <3>7. closing2 # {} /\ Min(closing2) = g
      BY <2>2, <2>3
    <3>8. SkipsToQuote' <=> (IF closing2 = {} THEN phase' # "done"
               ELSE /\ exec # "strict" => phase' \in {"called", "done"}
                    /\ phase' = "done" =>
                         /\ first' = Min(closing2) + 1
                         /\ /\ (exec = "block" /\ first' <= Len(text)) \/ (cnt' >= 0 => escapes2 # {} /\ \A p \in escapes2 : start + cnt' <= p)
                            /\ exec \in {"constant", "strict"} => IF escapes2 = {} THEN cnt' < 0 ELSE start + cnt' = Min(escapes2)
                         /\ exec = "strict" => \A p \in escapes2 : text[p + 1] \in Escapable)
      BY <1>1, <1>6, <1>7, Zenon DEF SkipsToQuote, NotesEscape
    <3> HIDE DEF closing2
    <3>9. escapes2 = escapes
      OBVIOUS
    <3> HIDE DEF escapes2, escapes
    <3> QED
      BY <3>3, <3>4, <3>5, <3>6, <3>7, <3>8, <3>9, Zenon
  <2>7. CASE At(text, found.end) # "\""
    <3>1. exec = "strict"
      BY <1>8, <1>11, <2>7, Zenon DEF IsAnswer, IsEndOf
    <3>2. phase' # "done"
      BY <1>1, <1>5, <2>7 DEF Move, Fail
    <3>3. closing # {}
      BY <2>2
    <3> HIDE DEF closing, escapes
    <3> QED
      BY <1>6, <3>1, <3>2, <3>3, Zenon DEF SkipsToQuote, closing, mode
  <2> QED
    BY <2>6, <2>7
<1> QED
  BY <1>10, <1>11

-----------------------------------------------------------------------------
(* Counting the brackets that are open.                                    *)

(***************************************************************************)
(* Where nothing is counted there is nothing ...                           *)
(***************************************************************************)
LEMMA NoneCounted ==
  ASSUME NEW S, NEW i \in Int, NEW j \in Int, CountIn(S, i, j) = 0
  PROVE  S \cap (i .. j) = {}
BY CountFinite, FS_EmptySet DEF CountIn

(***************************************************************************)
(* ... and where there is everything all of it is counted.                 *)
(***************************************************************************)
LEMMA AllCounted ==
  ASSUME NEW S, NEW n \in Nat, 1 .. n \subseteq S
  PROVE  CountIn(S, 1, n) = n
<1>1. S \cap (1 .. n) = 1 .. n
  OBVIOUS
<1>2. Cardinality(1 .. n) = n
  BY FS_Interval
<1> QED
  BY <1>1, <1>2 DEF CountIn

(* How often b is among the brackets that are open, and in which places,   *)
(* counted from the outermost.                                             *)
Held(s, b) == {k \in 1 .. Len(s) : s[Len(s) + 1 - k] = b}
Count(s, b) == CountIn(Held(s, b), 1, Len(s))

(***************************************************************************)
(* How often a bracket is open is a number.                                *)
(***************************************************************************)
LEMMA CountIsNat ==
  ASSUME NEW s \in Seq(Left), NEW b
  PROVE  Count(s, b) \in Nat
BY CountType DEF Count

(***************************************************************************)
(* One more that is open ...                                               *)
(***************************************************************************)
LEMMA CountInner ==
  ASSUME NEW s \in Seq(Left), NEW u \in Seq(Left), Len(u) = Len(s) + 1, \A i \in 1 .. Len(s) : u[i + 1] = s[i], NEW b
  PROVE  Count(u, b) = Count(s, b) + (IF u[1] = b THEN 1 ELSE 0)
<1> DEFINE n == Len(s)
<1>1. n \in Nat /\ Len(u) = n + 1 /\ \A i \in 1 .. n : u[i + 1] = s[i]
  OBVIOUS
<1>2. \A k \in 1 .. n : k \in Held(u, b) <=> k \in Held(s, b)
  <2> SUFFICES ASSUME NEW k \in 1 .. n
               PROVE  k \in Held(u, b) <=> k \in Held(s, b)
    OBVIOUS
  <2>1. n + 1 - k \in 1 .. n /\ (n + 1) + 1 - k = (n + 1 - k) + 1 /\ k \in 1 .. (n + 1)
    BY <1>1
  <2>2. u[(n + 1 - k) + 1] = s[n + 1 - k]
    BY <1>1, <2>1
  <2>3. u[Len(u) + 1 - k] = s[Len(s) + 1 - k]
    BY <1>1, <2>1, <2>2
  <2> QED
    BY <1>1, <2>1, <2>3 DEF Held
<1>3. n + 1 \in Held(u, b) <=> u[1] = b
  <2>1. Len(u) + 1 - (n + 1) = 1 /\ n + 1 \in 1 .. Len(u)
    BY <1>1
  <2> QED
    BY <2>1 DEF Held
<1> HIDE DEF n
<1>4. CountIn(Held(u, b), 1, n) = CountIn(Held(s, b), 1, n)
  <2>1. Held(u, b) \cap (1 .. n) = Held(s, b) \cap (1 .. n)
    BY <1>2
  <2> QED
    BY <2>1 DEF CountIn
<1>5. CountIn(Held(u, b), 1, n + 1) = CountIn(Held(u, b), 1, n) + (IF n + 1 \in Held(u, b) THEN 1 ELSE 0)
  <2>1. n \in Int /\ 1 \in Int /\ 1 <= n + 1
    BY <1>1
  <2> QED
    BY <2>1, CountLast
<1> QED
  BY <1>1, <1>3, <1>4, <1>5 DEF Count, n

(***************************************************************************)
(* ... as a bracket that is opened ...                                     *)
(***************************************************************************)
LEMMA CountPush ==
  ASSUME NEW s \in Seq(Left), NEW x \in Left, NEW b
  PROVE  Count(<<x>> \o s, b) = Count(s, b) + (IF x = b THEN 1 ELSE 0)
<1> DEFINE u == <<x>> \o s
<1>1. u \in Seq(Left) /\ Len(u) = Len(s) + 1 /\ u[1] = x /\ \A i \in 1 .. Len(s) : u[i + 1] = s[i]
  OBVIOUS
<1> HIDE DEF u
<1>2. Count(u, b) = Count(s, b) + (IF x = b THEN 1 ELSE 0)
  BY <1>1, CountInner
<1> QED
  BY <1>2 DEF u

(***************************************************************************)
(* ... and one less.                                                       *)
(***************************************************************************)
LEMMA CountPop ==
  ASSUME NEW s \in Seq(Left), s # <<>>, NEW b
  PROVE  Count(s, b) = Count(Tail(s), b) + (IF s[1] = b THEN 1 ELSE 0)
<1> DEFINE u == Tail(s)
<1>1. u \in Seq(Left) /\ Len(s) = Len(u) + 1 /\ \A i \in 1 .. Len(u) : s[i + 1] = u[i]
  OBVIOUS
<1> HIDE DEF u
<1>2. Count(s, b) = Count(u, b) + (IF s[1] = b THEN 1 ELSE 0)
  BY <1>1, CountInner
<1> QED
  BY <1>2 DEF u

(***************************************************************************)
(* In an item the bracket that opens it is counted; if it is the only one  *)
(* of its kind, and the innermost or the only one at all, nothing else is  *)
(* open.                                                                   *)
(***************************************************************************)
LEMMA CountNested ==
  ASSUME NEW s, NEW b, Nested(s, b)
  PROVE  Count(s, b) >= 1
<1>1. s \in Seq(Left) /\ Len(s) \in Nat \ {0} /\ s[Len(s)] = b
  BY NestedIsNotBad DEF Nested
<1>2. 1 \in Held(s, b) /\ 1 \in 1 .. Len(s)
  BY <1>1 DEF Held
<1>3. Count(s, b) # 0
  <2>1. Len(s) \in Int /\ 1 \in Int
    BY <1>1
  <2> QED
    BY <1>2, <2>1, NoneCounted DEF Count
<1>4. Count(s, b) \in Nat
  BY <1>1, CountIsNat
<1> QED
  BY <1>3, <1>4

(***************************************************************************)
(* ... if it is the only one of its kind and the innermost, ...            *)
(***************************************************************************)
LEMMA OnlyInner ==
  ASSUME NEW s, NEW b, Nested(s, b), s[1] = b, Count(s, b) = 1
  PROVE  Len(s) = 1
<1> DEFINE u == Tail(s)
<1>1. s \in Seq(Left) /\ s # <<>> /\ Len(s) \in Nat \ {0} /\ s[Len(s)] = b
  BY NestedIsNotBad DEF Nested
<1>2. u \in Seq(Left) /\ Len(u) = Len(s) - 1
  BY <1>1
<1>3. Len(s) # 1 => u # <<>> /\ u[Len(u)] = b
  <2> SUFFICES ASSUME Len(s) # 1 PROVE u # <<>> /\ u[Len(u)] = b
    OBVIOUS
  <2>1. Len(u) # 0 /\ Len(u) = Len(s) - 1 /\ Len(u) \in 1 .. Len(u)
    BY <1>1, <1>2
  <2>2. u[Len(u)] = s[Len(u) + 1]
    BY <1>1, <2>1
  <2>3. Len(u) + 1 = Len(s)
    BY <1>1, <2>1
  <2>4. <<>> \in Seq(Left) /\ Len(<<>>) = 0
    OBVIOUS
  <2> QED
    BY <1>1, <2>1, <2>2, <2>3, <2>4
<1>4. Count(s, b) = Count(u, b) + 1
  BY <1>1, CountPop
<1> HIDE DEF u
<1>5. Count(u, b) = 0
  BY <1>2, <1>4, CountIsNat
<1>6. Len(s) # 1 => Nested(u, b)
  BY <1>2, <1>3 DEF Nested
<1> QED
  BY <1>5, <1>6, CountNested

(***************************************************************************)
(* ... or if there is no other kind.                                       *)
(***************************************************************************)
LEMMA OnlyKind ==
  ASSUME NEW s \in Seq(Left), NEW b, NEW o, Left = {b, o}, Count(s, o) = 0
  PROVE  Count(s, b) = Len(s)
<1>1. Len(s) \in Nat
  OBVIOUS
<1>2. Held(s, o) \cap (1 .. Len(s)) = {}
  <2>1. Len(s) \in Int /\ 1 \in Int
    BY <1>1
  <2> QED
    BY <2>1, NoneCounted DEF Count
<1>3. 1 .. Len(s) \subseteq Held(s, b)
  <2> SUFFICES ASSUME NEW k \in 1 .. Len(s) PROVE s[Len(s) + 1 - k] = b
    BY DEF Held
  <2>1. Len(s) + 1 - k \in 1 .. Len(s)
    BY <1>1
  <2>2. s[Len(s) + 1 - k] \in {b, o}
    BY <2>1
  <2>3. k \notin Held(s, o)
    BY <1>2
  <2> QED
    BY <2>2, <2>3 DEF Held
<1> QED
  BY <1>1, <1>3, AllCounted DEF Count

-----------------------------------------------------------------------------
(* Going through an item.                                                  *)

(* What is at p does not depend on what is in front of it, or ends a       *)
(* comment.                                                                *)
Ready(t, c, p) == Mode(t, c)[p] = Fresh(t, c, p) \/ (t[p] = "\n" /\ Mode(t, c)[p] = "line")

(***************************************************************************)
(* Behind code, a closed string and a comment something new begins.        *)
(***************************************************************************)
LEMMA ReadyAfter ==
  ASSUME NEW t, NEW c, Len(t) \in Nat, NEW p \in 1 .. (Len(t) - 1),
         Mode(t, c)[p] \in {"code", "close"} \/ (Mode(t, c)[p] = "line" /\ t[p] = "\n")
  PROVE  Ready(t, c, p + 1)
<1>1. p + 1 \in 2 .. Len(t) /\ (p + 1) - 1 = p
  OBVIOUS
<1>2. Mode(t, c)[p + 1] = ModeAfter(t, c, Mode(t, c)[p], p + 1)
  BY <1>1, OpenIs
<1>3. Mode(t, c)[p + 1] = Fresh(t, c, p + 1)
  <2>1. CASE Mode(t, c)[p] \in {"code", "close"}
    BY <1>2, <2>1, AfterCode
  <2>2. CASE Mode(t, c)[p] = "line" /\ t[p] = "\n"
    BY <1>1, <1>2, <2>2, AfterLine
  <2> QED
    BY <2>1, <2>2
<1> QED
  BY <1>3 DEF Ready

(* The commas between the elements of an item that ends at e.              *)
CommasTo(t, c, e) == {p \in 1 .. e : t[p] = "," /\ Mode(t, c)[p] = "code" /\ Len(Brackets(t, c)[p]) = 1}

(* No character from f on and in front of g opens, closes or separates.    *)
Passing(t, c, e, f, g) ==
  \A q \in f .. (g - 1) : Brackets(t, c)[q] = Brackets(t, c)[q - 1] /\ q \notin CommasTo(t, c, e)

(***************************************************************************)
(* ... and so nothing has changed behind them.                             *)
(***************************************************************************)
LEMMA Passed ==
  ASSUME NEW t, NEW c, NEW e, NEW f \in Nat, NEW g \in Nat, 2 <= f, f <= g, Passing(t, c, e, f, g)
  PROVE  /\ Brackets(t, c)[g - 1] = Brackets(t, c)[f - 1]
         /\ CountIn(CommasTo(t, c, e), 1, g - 1) = CountIn(CommasTo(t, c, e), 1, f - 1)
<1> DEFINE S == {q \in (f - 1) .. (g - 1) : Brackets(t, c)[q] = Brackets(t, c)[f - 1]}
           C == CommasTo(t, c, e)
<1>1. f - 1 \in S /\ f - 1 \in Nat /\ g - 1 \in Nat
  OBVIOUS
<1>2. ASSUME NEW q \in ((f - 1) + 1) .. (g - 1), q - 1 \in S
      PROVE  q \in S
  <2>1. q \in f .. (g - 1) /\ q \in (f - 1) .. (g - 1)
    OBVIOUS
  <2>2. Brackets(t, c)[q] = Brackets(t, c)[q - 1]
    BY <2>1 DEF Passing
  <2> QED
    BY <1>2, <2>1, <2>2
<1>3. g - 1 \in S
  <2> HIDE DEF S
  <2>1. \A q \in (f - 1) .. (g - 1) : q \in S
    BY <1>1, <1>2, UpFrom
  <2> QED
    BY <1>1, <2>1
<1>4. CountIn(C, 1, g - 1) = CountIn(C, 1, f - 1) + CountIn(C, f, g - 1)
  <2>1. 1 \in Int /\ f - 1 \in Int /\ g - 1 \in Int /\ 1 <= (f - 1) + 1 /\ f - 1 <= g - 1 /\ (f - 1) + 1 = f
    OBVIOUS
  <2> HIDE DEF C
  <2>2. CountIn(C, 1, g - 1) = CountIn(C, 1, f - 1) + CountIn(C, (f - 1) + 1, g - 1)
    BY <2>1, CountSplit
  <2> QED
    BY <2>1, <2>2
<1>5. CountIn(C, f, g - 1) = 0
  <2>1. C \cap (f .. (g - 1)) = {}
    BY DEF Passing
  <2>2. f \in Int /\ g - 1 \in Int
    OBVIOUS
  <2> HIDE DEF C
  <2> QED
    BY <2>1, <2>2, CountNone
<1>6. CountIn(C, 1, f - 1) \in Nat
  <2> HIDE DEF C
  <2> QED
    BY CountType
<1> QED
  BY <1>3, <1>4, <1>5, <1>6

(***************************************************************************)
(* Strings and comments are such characters.                               *)
(***************************************************************************)
LEMMA PassingComments ==
  ASSUME NEW t, NEW c, NEW e, IsItem(t, c, e), NEW f \in 2 .. e, NEW g \in f .. e,
         \A q \in f .. (g - 1) : Mode(t, c)[q] # "code"
  PROVE  Passing(t, c, e, f, g)
<1> SUFFICES ASSUME NEW q \in f .. (g - 1)
             PROVE  Brackets(t, c)[q] = Brackets(t, c)[q - 1] /\ q \notin CommasTo(t, c, e)
  BY DEF Passing
<1>1. q \in 2 .. Len(t) /\ Len(t) \in Nat
  BY DEF IsItem
<1>2. Mode(t, c)[q] # "code"
  OBVIOUS
<1>3. Brackets(t, c)[q] = BracketsAfter(t, Mode(t, c), Brackets(t, c)[q - 1], q)
  BY <1>1, OpenIs
<1>4. Brackets(t, c)[q] = Brackets(t, c)[q - 1]
  BY <1>2, <1>3, Zenon DEF BracketsAfter
<1> QED
  BY <1>2, <1>4 DEF CommasTo

-----------------------------------------------------------------------------
(* The item is skipped as a whole.                                         *)

(* The texts that SkipsWholeItem is about.                                 *)
Proper == call = "item" /\ Scannable

(* In an item the cursor is where something begins, and what was counted is*)
(* what is open there and the commas in front of it.                       *)
Stands(p, left, other, commas) ==
  /\ p \in 2 .. ItemEnd(text, comments)
  /\ Ready(text, comments, p)
  /\ left = Count(Brackets(text, comments)[p - 1], Opening)
  /\ other = Count(Brackets(text, comments)[p - 1], Other)
  /\ commas = CountIn(Commas(text, comments), 1, p - 1)

Whole ==
  Proper =>
    /\ phase \in {"called", "inside", "done"}
    /\ phase = "inside" => Stands(first, prim, sec, cnt)
    /\ phase = "done" => first = ItemEnd(text, comments) + 1 /\ cnt = Cardinality(Commas(text, comments))

(***************************************************************************)
(* The commas of an item are those up to its end.                          *)
(***************************************************************************)
LEMMA CommasAre == \A t, c : Commas(t, c) = CommasTo(t, c, ItemEnd(t, c))
BY DEF Commas, CommasTo

(***************************************************************************)
(* What a call is given decides whether the property is about it.          *)
(***************************************************************************)
LEMMA ProperKept ==
  ASSUME UNCHANGED given
  PROVE  Proper' = Proper
BY Zenon DEF given, Proper, Scannable, IsSplit, Last

(***************************************************************************)
(* A call the property is about is given a text with an item.              *)
(***************************************************************************)
LEMMA ItemFacts ==
  ASSUME Given, Proper
  PROVE  /\ IsItem(text, comments, ItemEnd(text, comments))
         /\ ItemEnd(text, comments) \in 2 .. Len(text) /\ start < ItemEnd(text, comments)
         /\ Len(text) \in Nat /\ Last = Len(text) + 1 /\ Last \in Nat
         /\ call = "item"
         /\ start = 2 => text[2] # text[1]
         /\ text[1] \in Left
<1>1. Len(text) \in Nat \ {0} /\ Last \in Nat /\ Last = Len(text) + 1
  BY LastType
<1>2. start \in {1, 2} /\ text[1] \in Left
  BY DEF Given, Proper
<1>3. ItemEnd(text, comments) > start /\ call = "item" /\ (start = 2 => text[2] # text[1])
  BY DEF Proper, Scannable
<1>4. Slashes(text, comments)
  BY DEF Proper, Scannable, Slashes
<1>5. ItemEnd(text, comments) # 0
  <2>1. ~ (0 > start)
    BY <1>2
  <2> QED
    BY <1>3, <2>1, Zenon
<1>6. IsItem(text, comments, ItemEnd(text, comments))
  <2>1. \A p \in 1 .. Len(text) : text[p] # NUL
    BY DEF Given
  <2> QED
    BY <1>1, <1>4, <1>5, <2>1, ItemIs
<1>7. ItemEnd(text, comments) \in 2 .. Len(text)
  BY <1>6 DEF IsItem
<1>8. start < ItemEnd(text, comments)
  BY <1>2, <1>3, <1>7
<1> QED
  BY <1>1, <1>2, <1>3, <1>6, <1>7, <1>8

(***************************************************************************)
(* There are two kinds of brackets, and each has one partner.              *)
(***************************************************************************)
LEMMA OtherIs ==
  ASSUME text[1] \in Left
  PROVE  /\ Opening \in Left /\ Other \in Left /\ Other # Opening /\ Left = {Opening, Other}
         /\ Closing \in Right /\ Partner(Other) \in Right
         /\ \A b \in Left : (Partner(b) = Closing) <=> (b = Opening)
         /\ \A b \in Left : (Partner(b) = Partner(Other)) <=> (b = Other)
<1>1. \E b \in Left : b # Opening
  BY DEF Left
<1>2. Other \in Left /\ Other # Opening
  BY <1>1, Zenon DEF Other
<1>3. Opening \in Left
  BY DEF Opening
<1>4. (Opening = "[" /\ Other = "{") \/ (Opening = "{" /\ Other = "[")
  BY <1>2, <1>3 DEF Left
<1>5. Closing = Partner(Opening)
  BY DEF Closing
<1> QED
  BY <1>4, <1>5 DEF Left, Right, Partner

(***************************************************************************)
(* The cursor has gone on to where it stands in the item.                  *)
(***************************************************************************)
LEMMA Lands ==
  ASSUME Given, Proper, phase = "inside", NEW p, Move(p), Stands(p, prim', sec', cnt')
  PROVE  Whole'
<1>1. ItemEnd(text, comments) \in 2 .. Len(text) /\ Len(text) \in Nat /\ Last = Len(text) + 1
  BY ItemFacts
<1>2. p \in 2 .. ItemEnd(text, comments)
  BY DEF Stands
<1>3. ~ (p > Last)
  BY <1>1, <1>2
<1>4. first' = p /\ phase' = "inside" /\ text' = text /\ comments' = comments
  BY <1>3, Zenon DEF Move, given
<1>5. Stands(first', prim', sec', cnt')
  BY <1>4
<1>6. Stands(first, prim, sec, cnt)'
  BY <1>4, <1>5, Zenon DEF Stands, Opening, Other
<1> QED
  BY <1>4, <1>6 DEF Whole

(***************************************************************************)
(* Behind its opening bracket the cursor stands in the item.               *)
(***************************************************************************)
LEMMA EnterWhole ==
  ASSUME Inv, Whole, Enter
  PROVE  Whole'
<1> SUFFICES ASSUME Proper PROVE Whole'
  <2>1. UNCHANGED given
    BY DEF Enter
  <2> QED
    BY <2>1, ProperKept DEF Whole
<1> DEFINE e == ItemEnd(text, comments)
<1>1. Given
  BY DEF Inv
<1>2. /\ IsItem(text, comments, e) /\ e \in 2 .. Len(text) /\ start < e /\ Len(text) \in Nat /\ Last = Len(text) + 1
      /\ (start = 2 => text[2] # text[1]) /\ text[1] \in Left
  BY <1>1, ItemFacts
<1>3. first = start /\ start \in {1, 2}
  BY DEF Inv, Cursor, Given, Enter
<1>4. prim = 1 /\ sec = 0 /\ cnt = 0
  BY DEF Inv, Counted, Enter
<1> HIDE DEF e
<1>5. first' = 2
  <2>1. CASE start = 1
    <3>1. first < Last /\ 1 \in 1 .. Len(text) /\ first = 1
      BY <1>2, <1>3, <2>1
    <3>2. At(text, first) = Opening
      BY <3>1, Zenon DEF At, Opening
    <3>3. first' = first + 1
      BY <3>1, <3>2, Zenon DEF Enter
    <3> QED
      BY <3>1, <3>3
  <2>2. CASE start = 2
    <3>1. 2 \in 1 .. Len(text) /\ first = 2
      BY <1>2, <1>3, <2>2
    <3>2. At(text, first) # Opening
      BY <1>2, <2>2, <3>1, Zenon DEF At, Opening
    <3>3. first' = first
      BY <3>2, Zenon DEF Enter
    <3> QED
      BY <3>1, <3>3
  <2> QED
    BY <1>3, <2>1, <2>2
<1>6. phase' = "inside"
  <2>1. ~ (first >= Last) /\ ~ (first' >= Last)
    BY <1>2, <1>3, <1>5
  <2> QED
    BY <2>1, Zenon DEF Enter
<1>7. Mode(text, comments)[1] = "code" /\ Brackets(text, comments)[1] = <<text[1]>>
  <2>1. Len(text) \in Nat \ {0}
    BY <1>2
  <2> QED
    BY <1>2, <2>1, FirstIsOpen
<1>8. Ready(text, comments, 2)
  <2>1. 1 \in 1 .. (Len(text) - 1) /\ 1 + 1 = 2
    BY <1>2
  <2>2. Ready(text, comments, 1 + 1)
    BY <1>2, <1>7, <2>1, ReadyAfter
  <2> QED
    BY <2>1, <2>2
<1>9. Count(<<Opening>>, Opening) = 1 /\ Count(<<Opening>>, Other) = 0
  <2>1. Opening \in Left /\ Other # Opening
    BY <1>2, OtherIs
  <2>2. \A b : Count(<<>>, b) = 0
    <3>1. \A b : Held(<<>>, b) \cap (1 .. 0) = {}
      OBVIOUS
    <3>2. Len(<<>>) = 0
      OBVIOUS
    <3> QED
      BY <3>1, <3>2, CountNone DEF Count
  <2>3. <<>> \in Seq(Left) /\ <<Opening>> \o <<>> = <<Opening>>
    OBVIOUS
  <2>4. \A b : Count(<<Opening>> \o <<>>, b) = Count(<<>>, b) + (IF Opening = b THEN 1 ELSE 0)
    BY <2>1, <2>3, CountPush
  <2> QED
    BY <2>1, <2>2, <2>3, <2>4
<1>10. CountIn(Commas(text, comments), 1, 1) = 0
  <2>1. text[1] # ","
    BY <1>2 DEF Left
  <2>2. 1 \notin Commas(text, comments)
    BY <2>1 DEF Commas
  <2> QED
    BY <2>2, CountOne
<1>11. Stands(2, 1, 0, 0)
  <2>1. 2 \in 2 .. e /\ 2 - 1 = 1
    BY <1>2
  <2> QED
    BY <1>7, <1>8, <1>9, <1>10, <2>1 DEF Stands, Opening, e
<1>12. text' = text /\ comments' = comments /\ prim' = 1 /\ sec' = 0 /\ cnt' = 0
  BY <1>4 DEF Enter, given, Counters
<1>13. Stands(first', prim', sec', cnt')
  BY <1>5, <1>11, <1>12
<1>14. Stands(first, prim, sec, cnt)'
  BY <1>12, <1>13, Zenon DEF Stands, Opening, Other
<1> QED
  BY <1>6, <1>14 DEF Whole

(***************************************************************************)
(* What is known where the cursor stands.                                  *)
(***************************************************************************)
LEMMA Standing ==
  ASSUME Given, Proper, Stands(first, prim, sec, cnt)
  PROVE  /\ first \in 2 .. ItemEnd(text, comments) /\ first \in 2 .. Len(text) /\ first < Last /\ first \in Nat
         /\ At(text, first) = text[first] /\ text[first] # NUL /\ ~ AtEnd
         /\ Nested(Brackets(text, comments)[first - 1], Opening)
         /\ Ready(text, comments, first)
<1> DEFINE e == ItemEnd(text, comments)
<1>1. IsItem(text, comments, e) /\ e \in 2 .. Len(text) /\ Len(text) \in Nat /\ Last = Len(text) + 1
  BY ItemFacts
<1> HIDE DEF e
<1>2. first \in 2 .. e /\ Ready(text, comments, first)
  BY DEF Stands, e
<1>3. first \in 2 .. Len(text) /\ first < Last /\ first \in 1 .. Len(text) /\ first \in Nat /\ ~ (first >= Last)
      /\ first - 1 \in 1 .. (e - 1)
  BY <1>1, <1>2
<1>4. At(text, first) = text[first] /\ text[first] # NUL
  BY <1>3 DEF At, Given
<1>5. ~ AtEnd
  BY <1>3, <1>4, Zenon DEF AtEnd
<1>6. Nested(Brackets(text, comments)[first - 1], text[1])
  BY <1>1, <1>3 DEF IsItem
<1> QED
  BY <1>2, <1>3, <1>4, <1>5, <1>6 DEF Opening, e

(***************************************************************************)
(* A bracket, comma or backslash that the cursor comes to is code.         *)
(***************************************************************************)
LEMMA ReadsCode ==
  ASSUME Given, Proper, Stands(first, prim, sec, cnt), text[first] \notin {"\"", "/", "#", "\n"}
  PROVE  Mode(text, comments)[first] = "code"
<1>1. Ready(text, comments, first)
  BY DEF Stands
<1>2. Mode(text, comments)[first] = Fresh(text, comments, first)
  BY <1>1 DEF Ready
<1>3. Fresh(text, comments, first) = "code"
  BY DEF Fresh
<1> QED
  BY <1>2, <1>3

(***************************************************************************)
(* What code the cursor comes to does to the brackets that are open.       *)
(***************************************************************************)
LEMMA CodeDoes ==
  ASSUME Given, Proper, Stands(first, prim, sec, cnt)
  PROVE  Does(text, Mode(text, comments), Brackets(text, comments)[first - 1], first, Brackets(text, comments)[first])
<1> DEFINE e == ItemEnd(text, comments)
           s == Brackets(text, comments)[first - 1]
<1>1. /\ IsItem(text, comments, e) /\ first \in 2 .. e /\ first \in 2 .. Len(text) /\ Len(text) \in Nat
      /\ e \in Nat /\ Nested(s, Opening)
  BY ItemFacts, Standing
<1> HIDE DEF e
<1>2. Brackets(text, comments)[first] = BracketsAfter(text, Mode(text, comments), s, first)
  BY <1>1, OpenIs
<1>3. Brackets(text, comments)[first] # <<"bad">>
  <2>1. <<>> # <<"bad">>
    OBVIOUS
  <2>2. CASE first = e
    BY <1>1, <2>1, <2>2 DEF IsItem
  <2>3. CASE first # e
    <3>1. first \in 1 .. (e - 1)
      <4>1. first \in 2 .. e /\ first # e /\ e \in Nat
        BY <1>1, <2>3
      <4> HIDE DEF s
      <4> QED
        BY <4>1
    <3>2. Nested(Brackets(text, comments)[first], text[1])
      BY <1>1, <3>1 DEF IsItem
    <3> QED
      BY <3>2, NestedIsNotBad
  <2> QED
    BY <2>2, <2>3
<1> HIDE DEF s
<1> QED
  BY <1>1, <1>2, <1>3, Doing DEF s

(***************************************************************************)
(* The item ends only where nothing is open.                               *)
(***************************************************************************)
LEMMA GoesOnInside ==
  ASSUME Given, Proper, Stands(first, prim, sec, cnt)
  PROVE  /\ Brackets(text, comments)[first] # <<>> => first \in 2 .. (ItemEnd(text, comments) - 1)
         /\ Brackets(text, comments)[first] = <<>> => first = ItemEnd(text, comments)
<1> DEFINE e == ItemEnd(text, comments)
<1>1. IsItem(text, comments, e) /\ first \in 2 .. e /\ e \in Nat
  BY ItemFacts, Standing
<1> HIDE DEF e
<1>2. Brackets(text, comments)[e] = <<>>
  BY <1>1 DEF IsItem
<1>3. first # e => first \in 2 .. (e - 1) /\ Brackets(text, comments)[first] # <<>>
  <2> SUFFICES ASSUME first # e PROVE first \in 2 .. (e - 1) /\ Brackets(text, comments)[first] # <<>>
    OBVIOUS
  <2>1. first \in 2 .. (e - 1) /\ first \in 1 .. (e - 1)
    BY <1>1
  <2>2. Nested(Brackets(text, comments)[first], text[1])
    BY <1>1, <2>1 DEF IsItem
  <2> QED
    BY <2>1, <2>2 DEF Nested
<1> QED
  BY <1>2, <1>3 DEF e

(***************************************************************************)
(* Behind a character of code in the item.                                 *)
(***************************************************************************)
LEMMA StandsBehind ==
  ASSUME Given, Proper, Stands(first, prim, sec, cnt),
         Mode(text, comments)[first] = "code", Brackets(text, comments)[first] # <<>>,
         NEW left, left = Count(Brackets(text, comments)[first], Opening),
         NEW other, other = Count(Brackets(text, comments)[first], Other),
         NEW commas, commas = cnt + (IF first \in Commas(text, comments) THEN 1 ELSE 0)
  PROVE  Stands(first + 1, left, other, commas)
<1> DEFINE e == ItemEnd(text, comments)
<1>1. first \in 2 .. (e - 1) /\ e \in 2 .. Len(text) /\ Len(text) \in Nat /\ first \in Nat
  BY ItemFacts, Standing, GoesOnInside
<1> HIDE DEF e
<1>2. first + 1 \in 2 .. e /\ (first + 1) - 1 = first /\ first \in 1 .. (Len(text) - 1)
  BY <1>1
<1>3. Ready(text, comments, first + 1)
  BY <1>1, <1>2, ReadyAfter
<1>4. CountIn(Commas(text, comments), 1, first) = commas
  <2>1. (first - 1) + 1 = first /\ 1 \in Int /\ first - 1 \in Int /\ 1 <= (first - 1) + 1
    BY <1>1
  <2>2. cnt = CountIn(Commas(text, comments), 1, first - 1)
    BY DEF Stands
  <2>3. CountIn(Commas(text, comments), 1, (first - 1) + 1)
        = CountIn(Commas(text, comments), 1, first - 1) + (IF (first - 1) + 1 \in Commas(text, comments) THEN 1 ELSE 0)
    BY <2>1, CountLast
  <2> QED
    BY <2>1, <2>2, <2>3
<1> QED
  BY <1>2, <1>3, <1>4 DEF Stands, e

(***************************************************************************)
(* Behind characters that open, close and separate nothing.                *)
(***************************************************************************)
LEMMA StandsOn ==
  ASSUME Given, Proper, Stands(first, prim, sec, cnt),
         NEW p \in first .. ItemEnd(text, comments), Ready(text, comments, p),
         Passing(text, comments, ItemEnd(text, comments), first, p)
  PROVE  Stands(p, prim, sec, cnt)
<1> DEFINE e == ItemEnd(text, comments)
<1>1. first \in 2 .. e /\ e \in 2 .. Len(text) /\ Len(text) \in Nat /\ first \in Nat
  BY ItemFacts, Standing
<1>2. Commas(text, comments) = CommasTo(text, comments, e)
  BY CommasAre
<1> HIDE DEF e
<1>3. p \in 2 .. e /\ p \in Nat /\ 2 <= first /\ first <= p
  BY <1>1 DEF e
<1>4. Passing(text, comments, e, first, p)
  BY DEF e
<1>5. /\ Brackets(text, comments)[p - 1] = Brackets(text, comments)[first - 1]
      /\ CountIn(CommasTo(text, comments, e), 1, p - 1) = CountIn(CommasTo(text, comments, e), 1, first - 1)
  BY <1>1, <1>3, <1>4, Passed
<1> QED
  BY <1>2, <1>3, <1>5 DEF Stands, e

(***************************************************************************)
(* The operations on an item, one lemma for each: there is no backslash    *)
(* outside of strings, ...                                                 *)
(***************************************************************************)
LEMMA EscapeWhole ==
  ASSUME Given, Proper, phase = "inside", Stands(first, prim, sec, cnt), Escape
  PROVE  Whole'
<1>1. text[first] = "\\"
  BY Standing DEF Escape, Reads
<1>2. Mode(text, comments)[first] = "code"
  BY <1>1, ReadsCode
<1>3. Does(text, Mode(text, comments), Brackets(text, comments)[first - 1], first, Brackets(text, comments)[first])
  BY CodeDoes
<1>4. "\\" \notin Left /\ "\\" \notin Right
  BY DEF Left, Right
<1> QED
  BY <1>1, <1>2, <1>3, <1>4, Zenon DEF Does

(***************************************************************************)
(* ... a string is passed with its closing quote, ...                      *)
(***************************************************************************)
LEMMA StringWhole ==
  ASSUME Inv, Proper, phase = "inside", Stands(first, prim, sec, cnt), String
  PROVE  Whole'
<1> DEFINE e == ItemEnd(text, comments)
<1>1. Given /\ exec \in {"constant", "runtime", "block"} /\ (exec = "block" => ~ IsSplit)
  <2>1. call = "item" /\ (exec = "block" => ~ IsSplit)
    BY DEF Proper, Scannable
  <2>2. exec # "strict"
    BY <2>1 DEF Inv, Cursor
  <2> QED
    BY <2>1, <2>2 DEF Inv, Given
<1>2. /\ IsItem(text, comments, e) /\ first \in 2 .. e /\ e \in 2 .. Len(text) /\ Len(text) \in Nat
      /\ first \in Nat /\ Last = Len(text) + 1 /\ At(text, first) = text[first]
      /\ Ready(text, comments, first)
  BY <1>1, ItemFacts, Standing
<1>3. text[first] = "\""
  BY <1>2 DEF String, Reads
<1>4. Mode(text, comments)[first] = "open" /\ first \in 1 .. Len(text)
  <2>1. first \in 1 .. Len(text)
    BY <1>2
  <2> QED
    BY <1>2, <1>3, <2>1 DEF Ready, Fresh
<1> HIDE DEF e
<1>6. PICK g \in (first + 1) .. (e - 1) : Closes(text, comments, first, g)
  BY <1>2, <1>4, StringCloses
<1>7. StringAt(text, comments, first, g, Last) /\ g <= Len(text)
  <2>1. \A p \in 1 .. Len(text) : text[p] # NUL
    BY <1>2 DEF IsItem
  <2>2. g \in (first + 1) .. Last /\ g <= Len(text)
    BY <1>2
  <2> QED
    BY <1>2, <1>4, <1>6, <2>1, <2>2 DEF StringAt, Closes
<1>8. EndOfString(first + 1) = g /\ At(text, g) = "\""
  <2>1. CASE exec = "constant"
    <3>1. first + 1 \in Reached(text, comments, first, g, Last)
      BY <1>7, WordsArePlain, PlainReached
    <3>2. EndsAt(text, g, Last, bound, first + 1)
      BY <1>7, <3>1, EndIsRight
    <3> QED
      BY <1>7, <2>1, <3>2, Zenon DEF EndOfString, EndsAt, IsEndOf
  <2>2. CASE exec # "constant"
    <3>1. exec = "block" => NoSplit(text, comments, first, Last)
      BY <1>1, <1>4, SplitIs
    <3>2. Answers(text, comments, first, g, Last, exec, bound)
      BY <1>1, <1>7, <3>1, SearchIsRight
    <3>3. IsEndOf(text, g, Search(exec, text, first + 1, Last, bound).end)
      BY <1>1, <3>2 DEF Answers, IsAnswer
    <3> QED
      BY <1>7, <2>2, <3>3, Zenon DEF EndOfString, IsEndOf
  <2> QED
    BY <2>1, <2>2
<1>9. g \in 1 .. (Len(text) - 1) /\ g \in Nat /\ ~ (g >= Last) /\ g + 1 \in first .. e /\ g \in 1 .. Len(text)
  BY <1>2, <1>6
<1>10. Move(g + 1)
  BY <1>8, <1>9, Zenon DEF String
<1>11. Passing(text, comments, e, first, g + 1)
  <2>1. ASSUME NEW q \in first .. ((g + 1) - 1) PROVE Mode(text, comments)[q] # "code"
    <3>1. q = first \/ q = g \/ q \in (first + 1) .. (g - 1)
      BY <1>2, <1>9
    <3> QED
      BY <1>4, <1>6, <3>1 DEF Closes
  <2> QED
    BY <1>2, <1>9, <2>1, PassingComments
<1>12. Ready(text, comments, g + 1)
  BY <1>2, <1>6, <1>9, ReadyAfter DEF Closes
<1>13. Stands(g + 1, prim, sec, cnt)
  BY <1>1, <1>9, <1>11, <1>12, StandsOn DEF e
<1>14. prim' = prim /\ sec' = sec /\ cnt' = cnt
  BY DEF String, Counters
<1>15. Stands(g + 1, prim', sec', cnt')
  BY <1>13, <1>14
<1> QED
  BY <1>1, <1>10, <1>15, Lands

(***************************************************************************)
(* The brackets that are open are the item's own and those of its elements.*)
(***************************************************************************)
LEMMA OnlyOne ==
  ASSUME NEW s, Nested(s, Opening), text[1] \in Left
  PROVE  (Count(s, Opening) = 1 /\ Count(s, Other) = 0) <=> Len(s) = 1
<1>1. Left = {Opening, Other} /\ Other # Opening
  BY OtherIs
<1>2. s \in Seq(Left) /\ s # <<>> /\ Len(s) \in Nat \ {0} /\ s[Len(s)] = Opening
  BY NestedIsNotBad DEF Nested
<1>3. Count(s, Other) = 0 => Count(s, Opening) = Len(s)
  BY <1>1, <1>2, OnlyKind
<1>4. ASSUME Len(s) = 1 PROVE Count(s, Opening) = 1 /\ Count(s, Other) = 0
  <2>1. s[1] = Opening /\ Tail(s) \in Seq(Left) /\ Len(Tail(s)) = 0
    BY <1>2, <1>4
  <2>2. \A b : Count(Tail(s), b) = 0
    <3>1. \A b : Held(Tail(s), b) \cap (1 .. 0) = {}
      OBVIOUS
    <3>2. \A b : CountIn(Held(Tail(s), b), 1, 0) = 0
      BY <3>1, CountNone
    <3>3. Len(Tail(s)) = 0
      BY <2>1
    <3> QED
      BY <3>2, <3>3 DEF Count
  <2>3. \A b : Count(s, b) = Count(Tail(s), b) + (IF s[1] = b THEN 1 ELSE 0)
    BY <1>2, CountPop
  <2> QED
    BY <1>1, <2>1, <2>2, <2>3
<1> QED
  BY <1>2, <1>3, <1>4

(***************************************************************************)
(* ... a comma is counted if it is between elements of the item itself, ...*)
(***************************************************************************)
LEMMA CommaWhole ==
  ASSUME Given, Proper, phase = "inside", Stands(first, prim, sec, cnt), Comma
  PROVE  Whole'
<1> DEFINE s == Brackets(text, comments)[first - 1]
<1>1. text[first] = "," /\ Nested(s, Opening) /\ text[1] \in Left
  <2>1. At(text, first) = "," /\ At(text, first) = text[first]
    BY Standing DEF Comma, Reads
  <2> QED
    BY <2>1, Standing, ItemFacts
<1>10. first \in 1 .. ItemEnd(text, comments) /\ first - 1 \in Int
  <2>1. first \in 2 .. ItemEnd(text, comments) /\ ItemEnd(text, comments) \in 2 .. Len(text) /\ Len(text) \in Nat
    BY Standing, ItemFacts
  <2> QED
    BY <2>1
<1>2. Mode(text, comments)[first] = "code"
  BY <1>1, ReadsCode
<1>3. Brackets(text, comments)[first] = s
  <2>1. Does(text, Mode(text, comments), s, first, Brackets(text, comments)[first])
    BY CodeDoes
  <2>2. "," \notin Left /\ "," \notin Right
    BY DEF Left, Right
  <2> QED
    BY <1>1, <1>2, <2>1, <2>2, Zenon DEF Does
<1> HIDE DEF s
<1>4. prim = Count(s, Opening) /\ sec = Count(s, Other)
  BY DEF Stands, s
<1>5. (first \in Commas(text, comments)) <=> (prim = 1 /\ sec = 0)
  <2>1. (first \in Commas(text, comments)) <=> Len(s) = 1
    BY <1>10, <1>1, <1>2, <1>3, CommasAre, Zenon DEF CommasTo
  <2> QED
    BY <1>1, <1>4, <2>1, OnlyOne
<1>6. cnt' = cnt + (IF first \in Commas(text, comments) THEN 1 ELSE 0)
  <2>1. cnt = CountIn(Commas(text, comments), 1, first - 1)
    BY DEF Stands
  <2>2. cnt \in Nat
    BY <1>10, <2>1, CountType
  <2>3. cnt' = IF prim = 1 /\ sec = 0 THEN cnt + 1 ELSE cnt
    BY DEF Comma
  <2>4. CASE prim = 1 /\ sec = 0
    BY <1>5, <2>3, <2>4
  <2>5. CASE ~ (prim = 1 /\ sec = 0)
    BY <1>5, <2>2, <2>3, <2>5
  <2> QED
    BY <2>4, <2>5
<1>7. Brackets(text, comments)[first] # <<>>
  BY <1>1, <1>3 DEF Nested
<1>8. prim' = prim /\ sec' = sec /\ Move(first + 1)
  BY DEF Comma
<1>9. Stands(first + 1, prim', sec', cnt')
  BY <1>2, <1>3, <1>4, <1>6, <1>7, <1>8, StandsBehind
<1> QED
  BY <1>8, <1>9, Lands

(***************************************************************************)
(* ... a bracket that opens is counted with those of its kind, ...         *)
(***************************************************************************)
LEMMA LeftWhole ==
  ASSUME Given, Proper, phase = "inside", Stands(first, prim, sec, cnt), PrimLeft \/ SecLeft
  PROVE  Whole'
<1> DEFINE s == Brackets(text, comments)[first - 1]
<1>1. Nested(s, Opening) /\ text[1] \in Left /\ At(text, first) = text[first]
  BY Standing, ItemFacts
<1>2. Opening \in Left /\ Other \in Left /\ Other # Opening
  BY <1>1, OtherIs
<1>3. text[first] \in Left /\ Move(first + 1) /\ cnt' = cnt
  BY <1>1, <1>2 DEF PrimLeft, SecLeft, Reads
<1>4. Mode(text, comments)[first] = "code"
  <2>1. text[first] \notin {"\"", "/", "#", "\n"}
    BY <1>3 DEF Left
  <2> QED
    BY <2>1, ReadsCode
<1>5. Brackets(text, comments)[first] = <<text[first]>> \o s
  <2>1. Does(text, Mode(text, comments), s, first, Brackets(text, comments)[first])
    BY CodeDoes
  <2>2. text[first] \notin Right
    BY <1>3 DEF Left, Right
  <2> QED
    BY <1>3, <1>4, <2>1, <2>2, Zenon DEF Does
<1>6. s \in Seq(Left)
  BY <1>1 DEF Nested
<1> HIDE DEF s
<1>7. prim = Count(s, Opening) /\ sec = Count(s, Other)
  BY DEF Stands, s
<1>8. Brackets(text, comments)[first] # <<>>
  <2>1. \A x \in Left : <<x>> \o s # <<>>
    BY <1>6
  <2> QED
    BY <1>3, <1>5, <2>1
<1>9. \A b : Count(Brackets(text, comments)[first], b) = Count(s, b) + (IF text[first] = b THEN 1 ELSE 0)
  BY <1>3, <1>5, <1>6, CountPush
<1>10. Count(s, Opening) \in Nat /\ Count(s, Other) \in Nat
  BY <1>6, CountIsNat
<1>11. prim' = Count(Brackets(text, comments)[first], Opening) /\ sec' = Count(Brackets(text, comments)[first], Other)
  <2>1. CASE PrimLeft
    <3>1. text[first] = Opening /\ prim' = prim + 1 /\ sec' = sec
      BY <1>1, <2>1 DEF PrimLeft, Reads
    <3> QED
      BY <1>2, <1>7, <1>9, <1>10, <3>1
  <2>2. CASE SecLeft
    <3>1. text[first] = Other /\ sec' = sec + 1 /\ prim' = prim
      BY <1>1, <2>2 DEF SecLeft, Reads
    <3> QED
      BY <1>2, <1>7, <1>9, <1>10, <3>1
  <2> QED
    BY <2>1, <2>2
<1>12. cnt' = cnt + (IF first \in Commas(text, comments) THEN 1 ELSE 0)
  <2>1. text[first] # ","
    BY <1>3 DEF Left
  <2>2. first \notin Commas(text, comments)
    BY <2>1, CommasAre DEF CommasTo
  <2>3. cnt = CountIn(Commas(text, comments), 1, first - 1) /\ first - 1 \in Int
    BY Standing DEF Stands
  <2>4. cnt \in Nat
    BY <2>3, CountType
  <2> QED
    BY <1>3, <2>2, <2>4
<1>13. Stands(first + 1, prim', sec', cnt')
  BY <1>4, <1>8, <1>11, <1>12, StandsBehind
<1> QED
  BY <1>3, <1>13, Lands

(***************************************************************************)
(* Nothing is open behind the item.                                        *)
(***************************************************************************)
LEMMA EmptyCount == \A b : Count(<<>>, b) = 0
<1>1. \A b : Held(<<>>, b) \cap (1 .. 0) = {}
  OBVIOUS
<1>2. Len(<<>>) = 0
  OBVIOUS
<1> QED
  BY <1>1, <1>2, CountNone DEF Count

(***************************************************************************)
(* A bracket that closes is the partner of the innermost that is open.     *)
(***************************************************************************)
LEMMA RightCloses ==
  ASSUME Given, Proper, Stands(first, prim, sec, cnt), text[first] \in Right,
         NEW s, s = Brackets(text, comments)[first - 1]
  PROVE  /\ Mode(text, comments)[first] = "code"
         /\ text[first] = Partner(s[1]) /\ Brackets(text, comments)[first] = Tail(s)
         /\ Nested(s, Opening) /\ s \in Seq(Left) /\ s # <<>> /\ s[1] \in Left /\ Tail(s) \in Seq(Left)
         /\ \A b : Count(s, b) = Count(Tail(s), b) + (IF s[1] = b THEN 1 ELSE 0)
         /\ prim = Count(s, Opening) /\ sec = Count(s, Other) /\ prim \in Nat /\ sec \in Nat /\ prim >= 1
         /\ cnt \in Nat /\ first \notin Commas(text, comments)
<1>1. Nested(s, Opening)
  BY Standing
<1>2. s \in Seq(Left) /\ s # <<>> /\ s[1] \in Left
  BY <1>1, NestedIsNotBad DEF Nested
<1>3. Mode(text, comments)[first] = "code"
  <2>1. text[first] \notin {"\"", "/", "#", "\n"}
    BY DEF Right
  <2> QED
    BY <2>1, ReadsCode
<1>4. text[first] = Partner(s[1]) /\ Brackets(text, comments)[first] = Tail(s)
  <2>1. Does(text, Mode(text, comments), s, first, Brackets(text, comments)[first])
    BY CodeDoes
  <2>2. text[first] \notin Left
    BY DEF Left, Right
  <2> QED
    BY <1>3, <2>1, <2>2, Zenon DEF Does
<1>5. prim = Count(s, Opening) /\ sec = Count(s, Other)
  BY DEF Stands
<1>6. prim \in Nat /\ sec \in Nat /\ prim >= 1
  BY <1>1, <1>2, <1>5, CountIsNat, CountNested
<1>7. \A b : Count(s, b) = Count(Tail(s), b) + (IF s[1] = b THEN 1 ELSE 0)
  BY <1>2, CountPop
<1>8. cnt \in Nat
  <2>1. first - 1 \in Int
    BY Standing
  <2>2. cnt = CountIn(Commas(text, comments), 1, first - 1)
    BY DEF Stands
  <2> QED
    BY <2>1, <2>2, CountType
<1>9. first \notin Commas(text, comments)
  <2>1. text[first] # ","
    BY DEF Right
  <2> QED
    BY <2>1, CommasAre DEF CommasTo
<1>10. Tail(s) \in Seq(Left)
  BY <1>2
<1> QED
  BY <1>1, <1>2, <1>3, <1>4, <1>5, <1>6, <1>7, <1>8, <1>9, <1>10

(***************************************************************************)
(* ... its partner ends the item, or an element of it, ...                 *)
(***************************************************************************)
LEMMA PrimRightWhole ==
  ASSUME Given, Proper, phase = "inside", Stands(first, prim, sec, cnt), PrimRight
  PROVE  Whole'
<1> DEFINE s == Brackets(text, comments)[first - 1]
           e == ItemEnd(text, comments)
<1>1. text[1] \in Left /\ e \in 2 .. Len(text) /\ Len(text) \in Nat
  BY ItemFacts
<1>2. /\ Opening \in Left /\ Other # Opening /\ Closing \in Right
      /\ \A b \in Left : (Partner(b) = Closing) <=> (b = Opening)
  BY <1>1, OtherIs
<1>3. text[first] = Closing
  BY Standing DEF PrimRight, Reads
<1>4. /\ Mode(text, comments)[first] = "code"
      /\ text[first] = Partner(s[1]) /\ Brackets(text, comments)[first] = Tail(s)
      /\ Nested(s, Opening) /\ s \in Seq(Left) /\ s # <<>> /\ s[1] \in Left /\ Tail(s) \in Seq(Left)
      /\ \A b : Count(s, b) = Count(Tail(s), b) + (IF s[1] = b THEN 1 ELSE 0)
      /\ prim = Count(s, Opening) /\ sec = Count(s, Other) /\ prim \in Nat /\ sec \in Nat /\ prim >= 1
      /\ cnt \in Nat /\ first \notin Commas(text, comments)
  BY <1>2, <1>3, RightCloses
<1> HIDE DEF s, e
<1>5. s[1] = Opening
  BY <1>2, <1>3, <1>4
<1>6. Count(Tail(s), Opening) = prim - 1 /\ Count(Tail(s), Other) = sec
  <2>1. Count(Tail(s), Opening) \in Nat /\ Count(Tail(s), Other) \in Nat
    BY <1>4, CountIsNat
  <2> QED
    BY <1>2, <1>4, <1>5, <2>1
<1>7. prim' = prim - 1 /\ sec' = sec /\ cnt' = cnt
  BY DEF PrimRight
<1>8. CASE prim > 1
  <2>1. Tail(s) # <<>>
    <3>1. Count(Tail(s), Opening) # 0
      BY <1>4, <1>6, <1>8
    <3> QED
      BY <3>1, EmptyCount
  <2>2. Move(first + 1)
    <3>1. ~ (prim = 1)
      BY <1>8
    <3> QED
      BY <1>8, <3>1, Zenon DEF PrimRight
  <2>3. cnt' = cnt + (IF first \in Commas(text, comments) THEN 1 ELSE 0)
    BY <1>4, <1>7
  <2>4. prim' = Count(Brackets(text, comments)[first], Opening) /\ sec' = Count(Brackets(text, comments)[first], Other)
    BY <1>4, <1>6, <1>7
  <2>5. Stands(first + 1, prim', sec', cnt')
    BY <1>4, <2>1, <2>3, <2>4, StandsBehind
  <2> QED
    BY <2>2, <2>5, Lands
<1>9. CASE prim = 1
  <2>1. Len(s) = 1
    BY <1>4, <1>5, <1>9, OnlyInner
  <2>2. sec = 0
    BY <1>1, <1>4, <2>1, OnlyOne
  <2>3. Return(first + 1)
    <3>1. ~ (prim > 1)
      BY <1>9
    <3> QED
      BY <2>2, <3>1, Zenon DEF PrimRight
  <2>4. Tail(s) = <<>>
    BY <1>4, <2>1
  <2>5. first = e
    BY <1>4, <2>4, GoesOnInside DEF e
  <2>6. cnt = Cardinality(Commas(text, comments))
    <3>1. cnt = CountIn(Commas(text, comments), 1, first - 1) /\ first \in Int /\ first \in 2 .. e
      BY <1>1, <2>5 DEF Stands
    <3>2. (first - 1) + 1 = first /\ first - 1 \in Int /\ 1 <= (first - 1) + 1
      BY <3>1, <1>1
    <3>3. CountIn(Commas(text, comments), 1, (first - 1) + 1)
          = CountIn(Commas(text, comments), 1, first - 1) + (IF (first - 1) + 1 \in Commas(text, comments) THEN 1 ELSE 0)
      BY <3>2, CountLast
    <3>4. CountIn(Commas(text, comments), 1, first) = cnt
      BY <1>4, <3>1, <3>2, <3>3
    <3>5. Commas(text, comments) \cap (1 .. first) = Commas(text, comments)
      BY <2>5, CommasAre DEF CommasTo, e
    <3> QED
      BY <3>4, <3>5 DEF CountIn
  <2>7. phase' = "done" /\ first' = e + 1 /\ text' = text /\ comments' = comments
    BY <2>3, <2>5 DEF Return, given
  <2>8. first' = ItemEnd(text', comments') + 1 /\ cnt' = Cardinality(Commas(text', comments'))
    BY <1>7, <2>6, <2>7 DEF e
  <2> QED
    BY <2>7, <2>8, Zenon DEF Whole
<1> QED
  BY <1>4, <1>8, <1>9

(***************************************************************************)
(* ... a bracket of the other kind ends an element, ...                    *)
(***************************************************************************)
LEMMA SecRightWhole ==
  ASSUME Given, Proper, phase = "inside", Stands(first, prim, sec, cnt), SecRight
  PROVE  Whole'
<1> DEFINE s == Brackets(text, comments)[first - 1]
<1>1. text[1] \in Left
  BY ItemFacts
<1>2. /\ Other \in Left /\ Other # Opening /\ Partner(Other) \in Right
      /\ \A b \in Left : (Partner(b) = Partner(Other)) <=> (b = Other)
  BY <1>1, OtherIs
<1>3. text[first] = Partner(Other)
  BY Standing DEF SecRight, Reads
<1>4. /\ Mode(text, comments)[first] = "code"
      /\ text[first] = Partner(s[1]) /\ Brackets(text, comments)[first] = Tail(s)
      /\ Nested(s, Opening) /\ s \in Seq(Left) /\ s # <<>> /\ s[1] \in Left /\ Tail(s) \in Seq(Left)
      /\ \A b : Count(s, b) = Count(Tail(s), b) + (IF s[1] = b THEN 1 ELSE 0)
      /\ prim = Count(s, Opening) /\ sec = Count(s, Other) /\ prim \in Nat /\ sec \in Nat /\ prim >= 1
      /\ cnt \in Nat /\ first \notin Commas(text, comments)
  BY <1>2, <1>3, RightCloses
<1> HIDE DEF s
<1>5. s[1] = Other
  BY <1>2, <1>3, <1>4
<1>6. Count(Tail(s), Opening) = prim /\ Count(Tail(s), Other) = sec - 1
  <2>1. Count(Tail(s), Opening) \in Nat /\ Count(Tail(s), Other) \in Nat
    BY <1>4, CountIsNat
  <2> QED
    BY <1>2, <1>4, <1>5, <2>1
<1>7. prim' = prim /\ sec' = sec - 1 /\ cnt' = cnt /\ Move(first + 1)
  BY DEF SecRight
<1>8. Tail(s) # <<>>
  <2>1. Count(Tail(s), Opening) # 0
    BY <1>4, <1>6
  <2> QED
    BY <2>1, EmptyCount
<1>9. cnt' = cnt + (IF first \in Commas(text, comments) THEN 1 ELSE 0)
  BY <1>4, <1>7
<1>10. prim' = Count(Brackets(text, comments)[first], Opening) /\ sec' = Count(Brackets(text, comments)[first], Other)
  BY <1>4, <1>6, <1>7
<1>11. Stands(first + 1, prim', sec', cnt')
  BY <1>4, <1>8, <1>9, <1>10, StandsBehind
<1> QED
  BY <1>7, <1>11, Lands

(***************************************************************************)
(* Where a comment up to the end of the line begins, the cursor goes to its*)
(* end or behind it.                                                       *)
(***************************************************************************)
LEMMA LineAhead ==
  ASSUME Given, Proper, Stands(first, prim, sec, cnt), Mode(text, comments)[first] = "line"
  PROVE  \E g \in first .. (ItemEnd(text, comments) - 1) :
           /\ EndsLine(text, comments, first, g)
           /\ g \in 2 .. (Len(text) - 1) /\ g + 1 < Last /\ g >= first
           /\ Stands(g, prim, sec, cnt) /\ Stands(g + 1, prim, sec, cnt)
<1> DEFINE e == ItemEnd(text, comments)
<1>1. /\ IsItem(text, comments, e) /\ e \in 2 .. Len(text) /\ Len(text) \in Nat /\ Last = Len(text) + 1
      /\ first \in 2 .. e /\ first \in Nat
  BY ItemFacts, Standing
<1> HIDE DEF e
<1>2. PICK g \in first .. (e - 1) : EndsLine(text, comments, first, g)
  BY <1>1, LineEnds
<1>3. /\ g \in 2 .. (Len(text) - 1) /\ g + 1 < Last /\ g >= first /\ g \in Nat /\ g \in first .. e
      /\ g + 1 \in first .. e /\ g \in 1 .. (Len(text) - 1)
  BY <1>1, <1>2
<1>4. /\ text[g] = "\n" /\ Mode(text, comments)[g] = "line"
      /\ \A q \in first .. g : Mode(text, comments)[q] # "code"
  <2>1. g \in first .. g
    BY <1>1, <1>3
  <2> QED
    BY <1>2, <2>1 DEF EndsLine
<1>5. Passing(text, comments, e, first, g)
  <2>1. \A q \in first .. (g - 1) : Mode(text, comments)[q] # "code"
    <3>1. \A q \in first .. (g - 1) : q \in first .. g
      BY <1>1, <1>3
    <3> QED
      BY <1>4, <3>1
  <2> QED
    BY <1>1, <1>3, <2>1, PassingComments
<1>6. Passing(text, comments, e, first, g + 1)
  <2>1. \A q \in first .. ((g + 1) - 1) : Mode(text, comments)[q] # "code"
    <3>1. (g + 1) - 1 = g
      BY <1>3
    <3> QED
      BY <1>4, <3>1
  <2> QED
    BY <1>1, <1>3, <2>1, PassingComments
<1>7. Ready(text, comments, g)
  BY <1>4 DEF Ready
<1>8. Ready(text, comments, g + 1)
  BY <1>1, <1>3, <1>4, ReadyAfter
<1>9. Stands(g, prim, sec, cnt)
  BY <1>3, <1>5, <1>7, StandsOn DEF e
<1>10. Stands(g + 1, prim, sec, cnt)
  BY <1>3, <1>6, <1>8, StandsOn DEF e
<1> QED
  BY <1>2, <1>3, <1>9, <1>10 DEF e

(***************************************************************************)
(* ... a slash begins a comment, which is passed with its line, ...        *)
(***************************************************************************)
LEMMA SlashCommentWhole ==
  ASSUME Given, Proper, phase = "inside", Stands(first, prim, sec, cnt), SlashComment
  PROVE  Whole'
<1> DEFINE e == ItemEnd(text, comments)
<1>1. /\ IsItem(text, comments, e) /\ e \in 2 .. Len(text) /\ Len(text) \in Nat /\ Last = Len(text) + 1
      /\ first \in 2 .. Len(text) /\ first \in Nat
  BY ItemFacts, Standing
<1>2. text[first] = "/" /\ comments = "cpp" /\ Ready(text, comments, first)
  BY Standing DEF SlashComment, Reads
<1> HIDE DEF e
<1>3. Mode(text, comments)[first] = "line" /\ At(text, first + 1) = "/"
  <2>1. Mode(text, comments)[first] = Fresh(text, comments, first)
    BY <1>2 DEF Ready
  <2>2. Fresh(text, comments, first) \in {"line", "slash", "code"}
    BY <1>2 DEF Fresh
  <2>3. first \in 1 .. Len(text)
    BY <1>1
  <2>4. Mode(text, comments)[first] \in {"line"} \cup InString
    BY <1>1, <1>2, <2>3 DEF IsItem, Slashes
  <2>5. Fresh(text, comments, first) = "line"
    BY <2>1, <2>2, <2>4 DEF InString
  <2>6. At(text, first + 1) = "/"
    BY <1>2, <2>5 DEF Fresh
  <2> QED
    BY <2>1, <2>5, <2>6
<1>4. PICK g \in first .. (ItemEnd(text, comments) - 1) :
           /\ EndsLine(text, comments, first, g)
           /\ g \in 2 .. (Len(text) - 1) /\ g + 1 < Last /\ g >= first
           /\ Stands(g, prim, sec, cnt) /\ Stands(g + 1, prim, sec, cnt)
  BY <1>3, LineAhead
<1>5. g \in 2 .. (Len(text) - 1) /\ g + 1 < Last /\ g >= first /\ g \in Nat /\ Last \in Nat
  BY <1>1, <1>4
<1>6. text[g] = "\n" /\ \A q \in first .. (g - 1) : text[q] # "\n"
  BY <1>4 DEF EndsLine
<1>7. g >= first + 2
  <2>1. first # g
    BY <1>2, <1>6
  <2>2. first + 1 \in 1 .. Len(text)
    BY <1>1, <1>5, <2>1
  <2>3. text[first + 1] = "/"
    BY <1>3, <2>2, Zenon DEF At
  <2>4. first + 1 # g
    BY <1>6, <2>3
  <2> QED
    BY <1>1, <1>5, <2>1, <2>4
<1>8. PassedLine(first + 2) = g
  <2> DEFINE stops == {q \in (first + 2) .. Last : At(text, q) = "\n" \/ (Checked /\ Last - q <= 1)}
  <2>1. g \in stops
    <3>1. g \in (first + 2) .. Last /\ g \in 1 .. Len(text)
      BY <1>1, <1>5, <1>7
    <3>2. At(text, g) = "\n"
      BY <1>6, <3>1, Zenon DEF At
    <3> QED
      BY <3>1, <3>2
  <2>2. \A q \in stops : g <= q
    <3> SUFFICES ASSUME NEW q \in stops, ~ (g <= q) PROVE FALSE
      OBVIOUS
    <3>1. q \in (first + 2) .. Last /\ q \in Nat
      BY <1>1
    <3>2. q \in first .. (g - 1) /\ q \in 1 .. Len(text) /\ ~ (Last - q <= 1)
      BY <1>1, <1>5, <3>1
    <3>3. At(text, q) = text[q] /\ text[q] # "\n"
      BY <1>6, <3>2 DEF At
    <3> QED
      BY <3>2, <3>3
  <2>3. stops \in SUBSET Nat
    BY <1>1
  <2>4. PassedLine(first + 2) = IF stops = {} THEN Last + 1 ELSE Min(stops)
    BY DEF PassedLine
  <2> HIDE DEF stops
  <2>5. Min(stops) \in stops /\ \A i \in stops : Min(stops) <= i
    BY <2>1, <2>3, MinIsLeast
  <2>6. Min(stops) = g
    <3>1. Min(stops) <= g /\ g <= Min(stops) /\ Min(stops) \in Nat
      BY <2>1, <2>2, <2>3, <2>5
    <3> QED
      BY <1>5, <3>1
  <2> QED
    BY <2>1, <2>4, <2>6
<1>9. Move(g + 1)
  <2>1. ~ (first + 1 >= Last)
    BY <1>1, <1>5, <1>7
  <2> QED
    BY <1>3, <1>8, <2>1, Zenon DEF SlashComment
<1>10. prim' = prim /\ sec' = sec /\ cnt' = cnt
  BY DEF SlashComment, Counters
<1>11. Stands(g + 1, prim', sec', cnt')
  BY <1>4, <1>10
<1> QED
  BY <1>9, <1>11, Lands

(***************************************************************************)
(* ... as does a hash, ...                                                 *)
(***************************************************************************)
LEMMA HashCommentWhole ==
  ASSUME Given, Proper, phase = "inside", Stands(first, prim, sec, cnt), HashComment
  PROVE  Whole'
<1>1. Len(text) \in Nat /\ Last = Len(text) + 1 /\ first \in 2 .. Len(text) /\ first \in Nat
  BY ItemFacts, Standing
<1>2. text[first] = "#" /\ comments = "hash" /\ Ready(text, comments, first)
  BY Standing DEF HashComment, Reads
<1>3. Mode(text, comments)[first] = "line"
  BY <1>2 DEF Ready, Fresh
<1>4. PICK g \in first .. (ItemEnd(text, comments) - 1) :
           /\ EndsLine(text, comments, first, g)
           /\ g \in 2 .. (Len(text) - 1) /\ g + 1 < Last /\ g >= first
           /\ Stands(g, prim, sec, cnt) /\ Stands(g + 1, prim, sec, cnt)
  BY <1>3, LineAhead
<1>5. g \in 2 .. (Len(text) - 1) /\ g + 1 < Last /\ g >= first /\ g \in Nat /\ Last \in Nat
  BY <1>1, <1>4
<1>6. text[g] = "\n" /\ \A q \in first .. (g - 1) : text[q] # "\n"
  BY <1>4 DEF EndsLine
<1>7. g >= first + 1
  <2>1. first # g
    BY <1>2, <1>6
  <2> QED
    BY <1>1, <1>5, <2>1
<1>8. NextOf("\n", first + 1) = g
  <2> DEFINE found == {q \in (first + 1) .. Len(text) : text[q] = "\n"}
  <2>1. g \in found
    <3>1. g \in (first + 1) .. Len(text)
      BY <1>1, <1>5, <1>7
    <3> QED
      BY <1>6, <3>1
  <2>2. \A q \in found : g <= q
    <3> SUFFICES ASSUME NEW q \in found, ~ (g <= q) PROVE FALSE
      OBVIOUS
    <3>1. q \in (first + 1) .. Len(text) /\ q \in Nat /\ text[q] = "\n"
      BY <1>1
    <3>2. q \in first .. (g - 1)
      BY <1>1, <1>5, <3>1
    <3> QED
      BY <1>6, <3>1, <3>2
  <2>3. found \in SUBSET Nat
    BY <1>1
  <2>4. NextOf("\n", first + 1) = IF found # {} THEN Min(found) ELSE IF Checked THEN Max({first + 1, Last}) ELSE Last + 1
    BY DEF NextOf
  <2> HIDE DEF found
  <2>5. Min(found) \in found /\ \A i \in found : Min(found) <= i
    BY <2>1, <2>3, MinIsLeast
  <2>6. Min(found) = g
    <3>1. Min(found) <= g /\ g <= Min(found) /\ Min(found) \in Nat
      BY <2>1, <2>2, <2>3, <2>5
    <3> QED
      BY <1>5, <3>1
  <2> QED
    BY <2>1, <2>4, <2>6
<1>9. Move(g) \/ Move(g + 1)
  BY <1>8, Zenon DEF HashComment
<1>10. prim' = prim /\ sec' = sec /\ cnt' = cnt
  BY DEF HashComment, Counters
<1>11. Stands(g, prim', sec', cnt') /\ Stands(g + 1, prim', sec', cnt')
  BY <1>4, <1>10
<1> QED
  BY <1>9, <1>11, Lands

(***************************************************************************)
(* ... and any other character is passed by itself.                        *)
(***************************************************************************)
LEMMA PassWhole ==
  ASSUME Given, Proper, phase = "inside", Stands(first, prim, sec, cnt), Pass
  PROVE  Whole'
<1> DEFINE s == Brackets(text, comments)[first - 1]
<1>1. prim' = prim /\ sec' = sec /\ cnt' = cnt /\ Move(first + 1)
  BY DEF Pass, Counters
<1>2. Ready(text, comments, first) /\ text[first] \notin Significant /\ first \in Nat /\ Nested(s, Opening)
  BY Standing DEF Pass
<1>3. CASE Mode(text, comments)[first] = "line" /\ text[first] = "\n"
  <2>1. PICK g \in first .. (ItemEnd(text, comments) - 1) :
           /\ EndsLine(text, comments, first, g)
           /\ g \in 2 .. (Len(text) - 1) /\ g + 1 < Last /\ g >= first
           /\ Stands(g, prim, sec, cnt) /\ Stands(g + 1, prim, sec, cnt)
    BY <1>3, LineAhead
  <2>2. g = first
    <3>1. g # first => first \in first .. (g - 1)
      BY <1>2, <2>1
    <3> QED
      BY <1>3, <2>1, <3>1 DEF EndsLine
  <2>3. Stands(first + 1, prim', sec', cnt')
    BY <1>1, <2>1, <2>2
  <2> QED
    BY <1>1, <2>3, Lands
<1>4. CASE ~ (Mode(text, comments)[first] = "line" /\ text[first] = "\n")
  <2>1. text[first] \notin Left \cup Right \cup {"\\", "\"", ","}
    BY <1>2 DEF Significant
  <2>2. Mode(text, comments)[first] = "code"
    <3>1. Mode(text, comments)[first] = Fresh(text, comments, first)
      BY <1>2, <1>4 DEF Ready
    <3>2. ~ (comments = "cpp" /\ text[first] = "/") /\ ~ (comments = "hash" /\ text[first] = "#")
      BY <1>2 DEF Significant
    <3> QED
      BY <2>1, <3>1, <3>2 DEF Fresh
  <2>3. Brackets(text, comments)[first] = s
    <3>1. Does(text, Mode(text, comments), s, first, Brackets(text, comments)[first])
      BY CodeDoes
    <3> QED
      BY <2>1, <2>2, <3>1, Zenon DEF Does
  <2>4. first \notin Commas(text, comments)
    BY <2>1, CommasAre DEF CommasTo
  <2> HIDE DEF s
  <2>5. Brackets(text, comments)[first] # <<>>
    BY <1>2, <2>3 DEF Nested
  <2>6. prim = Count(s, Opening) /\ sec = Count(s, Other)
    BY DEF Stands, s
  <2>7. cnt' = cnt + (IF first \in Commas(text, comments) THEN 1 ELSE 0)
    <3>1. cnt = CountIn(Commas(text, comments), 1, first - 1)
      BY DEF Stands
    <3>2. cnt \in Nat
      BY <1>2, <3>1, CountType
    <3> QED
      BY <1>1, <2>4, <3>2
  <2>8. prim' = Count(Brackets(text, comments)[first], Opening) /\ sec' = Count(Brackets(text, comments)[first], Other)
    BY <1>1, <2>3, <2>6
  <2>9. Stands(first + 1, prim', sec', cnt')
    BY <2>2, <2>5, <2>7, <2>8, StandsBehind
  <2> QED
    BY <1>1, <2>9, Lands
<1> QED
  BY <1>3, <1>4

(***************************************************************************)
(* The end of the text is not reached.                                     *)
(***************************************************************************)
LEMMA RunOutWhole ==
  ASSUME Given, Proper, phase = "inside", Stands(first, prim, sec, cnt)
  PROVE  ~ RunOut
BY Standing DEF RunOut

(***************************************************************************)
(* Every step keeps the cursor and the counters in step with the text.     *)
(***************************************************************************)
LEMMA WholeKept ==
  ASSUME Inv, Whole, [Next]_vars
  PROVE  Whole'
<1>1. CASE UNCHANGED vars
  <2>1. UNCHANGED given /\ phase' = phase /\ first' = first /\ prim' = prim /\ sec' = sec /\ cnt' = cnt
        /\ text' = text /\ comments' = comments
    BY <1>1 DEF vars, given
  <2>2. Proper' = Proper
    BY <2>1, ProperKept
  <2> QED
    BY <2>1, <2>2, Zenon DEF Whole, Stands, Opening, Other
<1>2. CASE Next
  <2>1. UNCHANGED given
    BY <1>2, Zenon DEF Next, TrimComment, TrimSpace, TrimEnd, SkipString, NextComment, NextOther, NextFound, NextMissing,
       Enter, Escape, String, Comma, PrimLeft, PrimRight, SecLeft, SecRight, SlashComment, HashComment, Pass, RunOut,
       Move, Return, Fail
  <2>2. ASSUME Proper PROVE Whole'
    <3>1. call = "item" /\ Given
      BY <2>2 DEF Proper, Inv
    <3>2. ~ (TrimComment \/ TrimSpace \/ TrimEnd \/ SkipString \/ NextComment \/ NextOther \/ NextFound \/ NextMissing)
      BY <3>1 DEF TrimComment, TrimSpace, TrimEnd, SkipString, NextComment, NextOther, NextFound, NextMissing
    <3>3. CASE Enter
      BY <3>3, EnterWhole
    <3>4. CASE ~ Enter
      <4>1. Escape \/ String \/ Comma \/ PrimLeft \/ PrimRight \/ SecLeft \/ SecRight
            \/ SlashComment \/ HashComment \/ Pass \/ RunOut
        BY <1>2, <3>2, <3>4 DEF Next
      <4>2. phase = "inside"
        BY <4>1, Zenon DEF Escape, String, Comma, PrimLeft, PrimRight, SecLeft, SecRight, SlashComment, HashComment, Pass,
           RunOut, Reads
      <4>3. Stands(first, prim, sec, cnt)
        BY <2>2, <4>2 DEF Whole
      <4> QED
        BY <2>2, <3>1, <4>1, <4>2, <4>3, EscapeWhole, StringWhole, CommaWhole, LeftWhole, PrimRightWhole, SecRightWhole,
           SlashCommentWhole, HashCommentWhole, PassWhole, RunOutWhole
    <3> QED
      BY <3>3, <3>4
  <2>3. CASE ~ Proper
    BY <2>1, <2>3, ProperKept DEF Whole
  <2> QED
    BY <2>2, <2>3
<1> QED
  BY <1>1, <1>2

(***************************************************************************)
(* For every text that holds an item, skip_bracketed_item ends behind the  *)
(* bracket that closes the one it begins with, with the commas between its *)
(* elements counted, whatever its strings and comments contain, with every *)
(* comment policy, however the end of the text is found, and however       *)
(* strings are searched, at run time or by blocks: what is counted in      *)
(* primary_bracket_count and secondary_bracket_count is always what is     *)
(* open (daw_json_parse_policy.h, daw_json_parse_policy_cpp_comments.h and *)
(* daw_json_parse_policy_hash_comments.h).                                 *)
(***************************************************************************)
THEOREM SkippingCorrect == Spec => []SkipsWholeItem
<1>1. Init => Inv /\ Whole
  BY InvInit DEF Init, Whole
<1>2. Inv /\ Whole /\ [Next]_vars => Whole'
  BY WholeKept
<1>3. Whole => SkipsWholeItem
  BY DEF Whole, SkipsWholeItem, Proper
<1> QED
  BY <1>1, <1>2, <1>3, InvHolds, PTL DEF Spec

-----------------------------------------------------------------------------
(* Comments: where each ends, and that the cursor is put behind it.        *)

(***************************************************************************)
(* Where nothing is continued, a comment is what the scanners take for     *)
(* one.                                                                    *)
(***************************************************************************)
LEMMA CommentBegins ==
  ASSUME Given, NEW p \in 1 .. Len(text)
  PROVE  /\ IsComment(p) <=> Fresh(text, comments, p) \in {"line", "slash"}
         /\ IsComment(p) /\ (comments = "hash" \/ At(text, p + 1) = "/") => Fresh(text, comments, p) = "line"
         /\ IsComment(p) /\ ~ (comments = "hash" \/ At(text, p + 1) = "/") => Fresh(text, comments, p) = "slash" /\ At(text, p + 1) = "*"
<1>1. At(text, p) = text[p]
  BY DEF At
<1>2. comments \in {"none", "cpp", "hash"}
  BY DEF Given
<1>3. CASE comments = "none"
  <2>1. Fresh(text, comments, p) \in {"open", "code"}
    BY <1>3 DEF Fresh
  <2>2. ~ IsComment(p)
    BY <1>3 DEF IsComment
  <2> QED
    BY <2>1, <2>2
<1>4. CASE comments = "hash"
  BY <1>1, <1>4 DEF Fresh, IsComment
<1>5. CASE comments = "cpp"
  BY <1>1, <1>5 DEF Fresh, IsComment
<1> QED
  BY <1>2, <1>3, <1>4, <1>5

(* From p on to z there is a comment, at the end of which the text ends or *)
(* something new begins.                                                   *)
CommentTo(t, c, p, z) ==
  /\ \A q \in p .. z : q <= Len(t) => Mode(t, c)[q] \in Comment
  /\ z + 1 <= Len(t) => Mode(t, c)[z + 1] = Fresh(t, c, z + 1)

(* It is of the first kind, or of the second.                              *)
LineTo(t, c, p, z) ==
  /\ \A q \in p .. z : q <= Len(t) => Mode(t, c)[q] = "line"
  /\ \A q \in p .. (z - 1) : t[q] # "\n"
  /\ z <= Len(t) => t[z] = "\n"
StarsTo(t, c, p, z) ==
  /\ p + 1 <= Len(t) /\ Mode(t, c)[p] = "slash" /\ Mode(t, c)[p + 1] = "star"
  /\ \A q \in (p + 2) .. (z - 1) : Mode(t, c)[q] = "block"
  /\ z <= Len(t) => Mode(t, c)[z] = "endblock" /\ z >= p + 3 /\ t[z - 1] = "*" /\ t[z] = "/"

(***************************************************************************)
(* A comment up to the end of the line has an end, which may be that of    *)
(* the text.                                                               *)
(***************************************************************************)
LEMMA LineExists ==
  ASSUME NEW t, Len(t) \in Nat, NEW c, NEW p \in 1 .. Len(t), Mode(t, c)[p] = "line"
  PROVE  \E z \in p .. (Len(t) + 1) : LineTo(t, c, p, z)
<1> DEFINE N == {q \in p .. (Len(t) + 1) : q <= Len(t) => t[q] = "\n"}
<1>1. Len(t) + 1 \in N /\ N \in SUBSET Nat /\ p \in Nat
  OBVIOUS
<1>2. PICK z \in N : \A q \in N : z <= q
  <2> HIDE DEF N
  <2> QED
    BY <1>1, LeastExists
<1>3. z \in Nat /\ p <= z /\ z <= Len(t) + 1 /\ (z <= Len(t) => t[z] = "\n") /\ z \in p .. (Len(t) + 1)
  BY <1>2
<1>4. \A q \in p .. (z - 1) : t[q] # "\n"
  <2> SUFFICES ASSUME NEW q \in p .. (z - 1), t[q] = "\n" PROVE FALSE
    OBVIOUS
  <2>1. q \in N /\ ~ (z <= q)
    BY <1>3
  <2> QED
    BY <1>2, <2>1
<1> HIDE DEF N
<1> DEFINE S == {q \in p .. z : q <= Len(t) => Mode(t, c)[q] = "line"}
<1>5. p \in S
  BY <1>3
<1>6. ASSUME NEW q \in (p + 1) .. z, q - 1 \in S
      PROVE  q \in S
  <2>1. q \in p .. z /\ q - 1 \in p .. (z - 1)
    BY <1>1, <1>3
  <2>2. ASSUME q <= Len(t)
        PROVE  Mode(t, c)[q] = "line"
    <3>1. q \in 2 .. Len(t) /\ q - 1 <= Len(t)
      BY <1>1, <2>2
    <3>2. Mode(t, c)[q] = ModeAfter(t, c, Mode(t, c)[q - 1], q)
      BY <3>1, OpenIs
    <3>3. Mode(t, c)[q - 1] = "line"
      BY <1>6, <3>1
    <3>4. t[q - 1] # "\n"
      BY <1>4, <2>1
    <3> QED
      BY <3>2, <3>3, <3>4, AfterLine
  <2> QED
    BY <2>1, <2>2
<1> HIDE DEF S
<1>7. \A q \in p .. z : q \in S
  BY <1>1, <1>3, <1>5, <1>6, UpFrom
<1> QED
  BY <1>3, <1>4, <1>7 DEF LineTo, S

(***************************************************************************)
(* What follows the characters of the other kind.                          *)
(***************************************************************************)
LEMMA AfterStars ==
  ASSUME NEW t, NEW c, NEW p
  PROVE  /\ ModeAfter(t, c, "slash", p) = "star"
         /\ ModeAfter(t, c, "star", p) = "block"
         /\ ModeAfter(t, c, "block", p) = IF t[p - 1] = "*" /\ t[p] = "/" THEN "endblock" ELSE "block"
         /\ ModeAfter(t, c, "endblock", p) = Fresh(t, c, p)
BY DEF ModeAfter, InString

(***************************************************************************)
(* So has one between stars.                                               *)
(***************************************************************************)
LEMMA StarsExist ==
  ASSUME NEW t, Len(t) \in Nat, NEW c, NEW p \in 1 .. Len(t), Mode(t, c)[p] = "slash", p + 1 <= Len(t)
  PROVE  \E z \in (p + 2) .. (Len(t) + 1) : StarsTo(t, c, p, z)
<1> DEFINE N == {q \in (p + 2) .. (Len(t) + 1) : q <= Len(t) => Mode(t, c)[q] # "block"}
<1>1. Len(t) + 1 \in N /\ N \in SUBSET Nat /\ p \in Nat /\ p >= 1
  OBVIOUS
<1>2. PICK z \in N : \A q \in N : z <= q
  <2> HIDE DEF N
  <2> QED
    BY <1>1, LeastExists
<1>3. z \in Nat /\ p + 2 <= z /\ z <= Len(t) + 1 /\ (z <= Len(t) => Mode(t, c)[z] # "block") /\ z \in (p + 2) .. (Len(t) + 1)
  BY <1>2
<1>4. \A q \in (p + 2) .. (z - 1) : Mode(t, c)[q] = "block"
  <2> SUFFICES ASSUME NEW q \in (p + 2) .. (z - 1), Mode(t, c)[q] # "block" PROVE FALSE
    OBVIOUS
  <2>1. q \in N /\ ~ (z <= q)
    BY <1>3
  <2> QED
    BY <1>2, <2>1
<1> HIDE DEF N
<1>5. Mode(t, c)[p + 1] = "star"
  <2>1. p + 1 \in 2 .. Len(t) /\ (p + 1) - 1 = p
    BY <1>1
  <2>2. Mode(t, c)[p + 1] = ModeAfter(t, c, Mode(t, c)[(p + 1) - 1], p + 1)
    BY <2>1, OpenIs
  <2>3. Mode(t, c)[p + 1] = ModeAfter(t, c, "slash", p + 1)
    BY <2>1, <2>2, Zenon
  <2> QED
    BY <2>3, AfterStars
<1>6. ASSUME z <= Len(t)
      PROVE  Mode(t, c)[z] = "endblock" /\ z >= p + 3 /\ t[z - 1] = "*" /\ t[z] = "/"
  <2>1. z \in 2 .. Len(t)
    BY <1>1, <1>3, <1>6
  <2>2. Mode(t, c)[z] = ModeAfter(t, c, Mode(t, c)[z - 1], z)
    BY <2>1, OpenIs
  <2>3. Mode(t, c)[z] # "block"
    BY <1>3, <1>6
  <2>4. z # p + 2
    <3>1. SUFFICES ASSUME z = p + 2 PROVE FALSE
      OBVIOUS
    <3>2. z - 1 = p + 1
      BY <1>1, <3>1
    <3>3. Mode(t, c)[z - 1] = "star"
      BY <1>5, <3>2
    <3> QED
      BY <2>2, <2>3, <3>3, AfterStars
  <2>5. z >= p + 3 /\ z - 1 \in (p + 2) .. (z - 1)
    BY <1>1, <1>3, <2>4
  <2>6. Mode(t, c)[z - 1] = "block"
    BY <1>4, <2>5
  <2>7. Mode(t, c)[z] = IF t[z - 1] = "*" /\ t[z] = "/" THEN "endblock" ELSE "block"
    BY <2>2, <2>6, AfterStars
  <2> QED
    BY <2>3, <2>5, <2>7
<1> QED
  BY <1>3, <1>4, <1>5, <1>6 DEF StarsTo

(***************************************************************************)
(* Either is a comment, ...                                                *)
(***************************************************************************)
LEMMA LineIsComment ==
  ASSUME NEW t, Len(t) \in Nat, NEW c, NEW p \in 1 .. Len(t), NEW z \in p .. (Len(t) + 1), LineTo(t, c, p, z)
  PROVE  CommentTo(t, c, p, z)
<1>1. p \in Nat /\ z \in Nat /\ z \in p .. z /\ z >= 1
  OBVIOUS
<1>2. \A q \in p .. z : q <= Len(t) => Mode(t, c)[q] \in Comment
  BY DEF LineTo, Comment
<1>3. ASSUME z + 1 <= Len(t)
      PROVE  Mode(t, c)[z + 1] = Fresh(t, c, z + 1)
  <2>1. z + 1 \in 2 .. Len(t) /\ (z + 1) - 1 = z /\ z <= Len(t)
    BY <1>1, <1>3
  <2>2. Mode(t, c)[z + 1] = ModeAfter(t, c, Mode(t, c)[(z + 1) - 1], z + 1)
    BY <2>1, OpenIs
  <2>3. Mode(t, c)[z] = "line" /\ t[z] = "\n"
    BY <1>1, <2>1 DEF LineTo
  <2>4. ModeAfter(t, c, "line", z + 1) = IF t[(z + 1) - 1] = "\n" THEN Fresh(t, c, z + 1) ELSE "line"
    BY AfterLine
  <2> QED
    BY <2>1, <2>2, <2>3, <2>4, Zenon
<1> QED
  BY <1>2, <1>3 DEF CommentTo

(***************************************************************************)
(* ... of whichever kind.                                                  *)
(***************************************************************************)
LEMMA StarsAreComment ==
  ASSUME NEW t, Len(t) \in Nat, NEW c, NEW p \in 1 .. Len(t), NEW z \in (p + 2) .. (Len(t) + 1), StarsTo(t, c, p, z)
  PROVE  CommentTo(t, c, p, z)
<1>1. p \in Nat /\ z \in Nat /\ z >= 1
  OBVIOUS
<1>2. \A q \in p .. z : q <= Len(t) => Mode(t, c)[q] \in Comment
  <2> SUFFICES ASSUME NEW q \in p .. z, q <= Len(t) PROVE Mode(t, c)[q] \in Comment
    OBVIOUS
  <2>1. q = p \/ q = p + 1 \/ q \in (p + 2) .. (z - 1) \/ (q = z /\ z <= Len(t))
    BY <1>1
  <2>2. Mode(t, c)[q] \in {"slash", "star", "block", "endblock"}
    BY <2>1 DEF StarsTo
  <2> QED
    BY <2>2 DEF Comment
<1>3. ASSUME z + 1 <= Len(t)
      PROVE  Mode(t, c)[z + 1] = Fresh(t, c, z + 1)
  <2>1. z + 1 \in 2 .. Len(t) /\ (z + 1) - 1 = z /\ z <= Len(t)
    BY <1>1, <1>3
  <2>2. Mode(t, c)[z + 1] = ModeAfter(t, c, Mode(t, c)[(z + 1) - 1], z + 1)
    BY <2>1, OpenIs
  <2>3. Mode(t, c)[z] = "endblock"
    BY <2>1 DEF StarsTo
  <2>4. ModeAfter(t, c, "endblock", z + 1) = Fresh(t, c, z + 1)
    BY AfterStars
  <2> QED
    BY <2>1, <2>2, <2>3, <2>4, Zenon
<1> QED
  BY <1>2, <1>3 DEF CommentTo

(***************************************************************************)
(* None is in front of the next of a character.                            *)
(***************************************************************************)
LEMMA NextOfIsFirst ==
  ASSUME Given, NEW c, NEW p \in Nat, p >= 1, NEW z \in p .. Len(text), text[z] = c
  PROVE  NextOf(c, p) \in p .. z /\ text[NextOf(c, p)] = c
<1> DEFINE found == {q \in p .. Len(text) : text[q] = c}
           m == Min(found)
<1>1. Len(text) \in Nat
  BY LastType
<1>2. z \in found /\ found \in SUBSET Nat
  BY <1>1
<1>3. m \in found /\ m <= z
  <2> HIDE DEF found
  <2> QED
    BY <1>2, MinIsLeast
<1>4. NextOf(c, p) = m
  BY <1>2, Zenon DEF NextOf
<1>5. m \in p .. Len(text) /\ text[m] = c
  BY <1>3
<1> HIDE DEF m, found
<1> QED
  BY <1>1, <1>3, <1>4, <1>5

(* r is behind a comment that ends at z, or at the end of the text.        *)
IsBehind(z, r) == IF z <= Len(text) THEN r = z + 1 ELSE r >= Last

(***************************************************************************)
(* The search for the end of the line finds it ...                         *)
(***************************************************************************)
LEMMA BehindLineFinds ==
  ASSUME Given, NEW p \in Nat, p >= 1, p <= Last, NEW z \in p .. Last,
         \A q \in p .. (z - 1) : text[q] # "\n", z <= Len(text) => text[z] = "\n"
  PROVE  IsBehind(z, BehindLine(p))
<1> DEFINE end == NextOf("\n", p)
<1>1. Last \in Nat /\ Len(text) \in Nat /\ Last = Len(text) + 1 /\ z \in Nat /\ z >= p /\ z <= Last
  BY LastType
<1>2. BehindLine(p) = IF Checked /\ At(text, end) # "\n" THEN end ELSE end + 1
  BY Zenon DEF BehindLine
<1>3. CASE z <= Len(text)
  <2>1. end \in p .. z /\ text[end] = "\n"
    <3>1. z \in p .. Len(text) /\ text[z] = "\n"
      BY <1>1, <1>3
    <3> QED
      BY <3>1, NextOfIsFirst
  <2> HIDE DEF end
  <2>2. end = z
    <3>1. end \notin p .. (z - 1)
      BY <2>1
    <3>2. end \in p .. z
      BY <2>1
    <3> HIDE <2>1
    <3> QED
      BY <1>1, <3>1, <3>2
  <2>3. At(text, end) = "\n"
    <3>1. z \in 1 .. Len(text)
      BY <1>1, <1>3
    <3> QED
      BY <2>1, <2>2, <3>1, Zenon DEF At
  <2>4. BehindLine(p) = z + 1
    BY <1>2, <2>2, <2>3, Zenon
  <2> QED
    BY <1>3, <2>4, Zenon DEF IsBehind
<1>4. CASE ~ (z <= Len(text))
  <2>1. z = Last
    BY <1>1, <1>4
  <2>2. end \notin p .. Len(text) \/ text[end] # "\n"
    <3>1. end \in p .. Len(text) => end \in p .. (z - 1)
      BY <1>1, <2>1
    <3> QED
      BY <3>1
  <2>3. end >= Last /\ end \in Nat
    <3>1. \/ end \in p .. Len(text) /\ text[end] = "\n"
          \/ Checked /\ end \in Nat /\ end >= p /\ end >= Last /\ (p <= Last => end = Last)
          \/ ~ Checked /\ end = Last + 1
      BY NextOfFinds
    <3> HIDE DEF end
    <3> QED
      BY <1>1, <2>2, <3>1
  <2> HIDE DEF end
  <2>4. BehindLine(p) >= Last
    BY <1>1, <1>2, <2>3
  <2> QED
    BY <1>4, <2>4, Zenon DEF IsBehind
<1> QED
  BY <1>3, <1>4

(* Between p and z there are no two stars in a row.                        *)
Unstarred(p, z) == \A q \in p .. (z - 2) : ~ (text[q] = "*" /\ text[q + 1] = "*")

(***************************************************************************)
(* ... as the one for a star and a slash does, which takes two characters  *)
(* at a time, if there are no two stars in a row.                          *)
(***************************************************************************)
LEMMA BehindStarsFinds ==
  ASSUME Given, NEW p \in 1 .. Len(text), NEW z \in (p + 2) .. Last, StarsTo(text, comments, p, z),
         Unstarred(p + 2, z)
  PROVE  IsBehind(z, BehindStars(p + 2))
<1> DEFINE a == p + 2
           mode == Mode(text, comments)
<1>1. /\ Last \in Nat /\ Len(text) \in Nat /\ Last = Len(text) + 1 /\ p \in Nat /\ z \in Nat /\ a \in Nat
      /\ p >= 1 /\ z >= a /\ z <= Last /\ a >= 3 /\ a <= Last
  BY LastType
<1>2. \A q \in a .. (z - 1) : mode[q] = "block" /\ q \in Nat /\ q <= Len(text)
  BY <1>1 DEF StarsTo
<1>3. ASSUME NEW s \in a .. (z - 1), s + 1 <= Len(text), s + 1 # z
      PROVE  ~ (text[s] = "*" /\ text[s + 1] = "/")
  <2>1. s + 1 \in 2 .. Len(text) /\ (s + 1) - 1 = s /\ s \in Nat /\ s + 1 \in a .. (z - 1)
    BY <1>1, <1>3
  <2>2. mode[s + 1] = ModeAfter(text, comments, mode[(s + 1) - 1], s + 1)
    BY <1>1, <2>1, OpenIs
  <2>3. mode[s] = "block" /\ mode[s + 1] = "block"
    BY <1>2, <2>1
  <2>4. mode[s + 1] = IF text[(s + 1) - 1] = "*" /\ text[s + 1] = "/" THEN "endblock" ELSE "block"
    BY <2>1, <2>2, <2>3, AfterStars
  <2> QED
    BY <2>1, <2>3, <2>4
<1> HIDE DEF mode
<1>4. CASE z <= Len(text)
  <2> DEFINE P == a .. (z - 1)
  <2>1. z >= p + 3 /\ text[z - 1] = "*" /\ text[z] = "/" /\ z - 1 \in Nat /\ z - 1 >= a /\ z - 1 < z
    BY <1>1, <1>4 DEF StarsTo
  <2>2. ASSUME NEW q \in P
        PROVE  AfterStar(q) \in (q + 1) .. z /\ AfterStar(q) - 1 \in P /\ text[AfterStar(q) - 1] = "*"
    <3> DEFINE s == NextOf("*", q)
    <3>1. q \in Nat /\ q >= 1 /\ q >= a /\ q <= z - 1
      BY <1>1
    <3>2. s \in q .. (z - 1) /\ text[s] = "*"
      <4>1. z - 1 \in q .. Len(text)
        BY <1>1, <1>4, <3>1
      <4> QED
        BY <2>1, <3>1, <4>1, NextOfIsFirst
    <3>3. AfterStar(q) = IF Checked /\ s >= Last THEN s ELSE s + 1
      BY Zenon DEF AfterStar
    <3> HIDE DEF s, P
    <3>4. s \in Nat /\ s >= q /\ s <= z - 1
      BY <3>1, <3>2
    <3>5. ~ (s >= Last)
      BY <1>1, <1>4, <2>1, <3>4
    <3>6. AfterStar(q) = s + 1
      BY <3>3, <3>5
    <3>7. s + 1 \in (q + 1) .. z /\ (s + 1) - 1 = s /\ s \in a .. (z - 1)
      BY <1>1, <2>1, <3>1, <3>4
    <3> QED
      BY <3>2, <3>6, <3>7 DEF P
  <2>3. KeepsTo(P)
    <3> SUFFICES ASSUME NEW q \in P, text[AfterStar(q)] # "/" PROVE AfterStar(q) + 1 \in P
      BY DEF KeepsTo
    <3> DEFINE n == AfterStar(q)
    <3>1. n \in (q + 1) .. z /\ n - 1 \in P /\ text[n - 1] = "*" /\ text[n] # "/"
      BY <2>2
    <3>2. q \in Nat /\ q >= a /\ q <= z - 1
      BY <1>1
    <3> HIDE DEF n
    <3>3. n \in Nat /\ n >= a + 1 /\ n <= z /\ n # z
      BY <1>1, <2>1, <3>1, <3>2
    <3>4. n # z - 1
      <4> SUFFICES ASSUME n = z - 1 PROVE FALSE
        OBVIOUS
      <4>1. text[n] = "*"
        BY <2>1
      <4>2. n - 1 \in (p + 2) .. (z - 2) /\ (n - 1) + 1 = n
        BY <1>1, <2>1, <3>3
      <4>3. ~ (text[n - 1] = "*" /\ text[(n - 1) + 1] = "*")
        BY <4>2 DEF Unstarred
      <4> QED
        BY <3>1, <4>1, <4>2, <4>3
    <3> QED
      BY <1>1, <2>1, <3>3, <3>4 DEF n
  <2>4. P \subseteq a .. (Last + 2) /\ a \in P
    BY <1>1, <2>1
  <2>5. PICK q \in P : /\ AfterStar(q) >= Last \/ text[AfterStar(q)] = "/"
                       /\ BehindStars(a) = IF AfterStar(q) >= Last THEN AfterStar(q) ELSE AfterStar(q) + 1
    <3> HIDE DEF P, a
    <3>1. a \in Nat /\ a >= 1 /\ a <= Last
      BY <1>1
    <3>2. StarsEndIn(P, a)
      BY <3>1, <2>3, <2>4, StarsStop
    <3> QED
      BY <3>2, Zenon DEF StarsEndIn
  <2> DEFINE n == AfterStar(q)
  <2>6. n \in (q + 1) .. z /\ n - 1 \in P /\ text[n - 1] = "*"
    BY <2>2
  <2>7. n >= Last \/ text[n] = "/"
    BY <2>5
  <2>8. BehindStars(a) = IF n >= Last THEN n ELSE n + 1
    BY <2>5
  <2> HIDE DEF n
  <2>9. q \in Nat /\ q >= a /\ n \in Nat /\ n <= z /\ ~ (n >= Last) /\ n <= Len(text)
    BY <1>1, <1>4, <2>1, <2>6
  <2>10. n = z
    <3> SUFFICES ASSUME n # z PROVE FALSE
      OBVIOUS
    <3>1. n - 1 \in a .. (z - 1) /\ (n - 1) + 1 = n
      BY <2>6, <2>9
    <3>2. ~ (text[n - 1] = "*" /\ text[(n - 1) + 1] = "/")
      BY <1>3, <2>9, <3>1
    <3> QED
      BY <2>6, <2>7, <2>9, <3>1, <3>2
  <2>11. BehindStars(a) = z + 1
    BY <2>8, <2>9, <2>10, Zenon
  <2> QED
    BY <1>4, <2>11, Zenon DEF IsBehind
<1>5. CASE ~ (z <= Len(text))
  <2> DEFINE P == a .. Last
  <2>1. z = Last /\ z - 1 = Len(text)
    BY <1>1, <1>5
  <2>2. ASSUME NEW q \in P, AfterStar(q) < Last
        PROVE  AfterStar(q) \in (q + 1) .. Len(text) /\ AfterStar(q) - 1 \in a .. (z - 1) /\ text[AfterStar(q) - 1] = "*"
    <3> DEFINE s == NextOf("*", q)
    <3>1. q \in Nat /\ q >= 1 /\ q >= a /\ q <= Last
      BY <1>1
    <3>2. \/ s \in q .. Len(text) /\ text[s] = "*"
          \/ s \in Nat /\ s >= Last
      <4>1. \/ s \in q .. Len(text) /\ text[s] = "*"
            \/ Checked /\ s \in Nat /\ s >= q /\ s >= Last /\ (q <= Last => s = Last)
            \/ ~ Checked /\ s = Last + 1
        BY <3>1, NextOfFinds
      <4> HIDE DEF s
      <4> QED
        BY <1>1, <4>1
    <3>3. AfterStar(q) = IF Checked /\ s >= Last THEN s ELSE s + 1
      BY Zenon DEF AfterStar
    <3> HIDE DEF s, P
    <3>4. s \in q .. Len(text) /\ text[s] = "*"
      BY <1>1, <2>2, <3>2, <3>3
    <3>5. s \in Nat /\ s >= q /\ s <= Len(text) /\ ~ (s >= Last)
      BY <1>1, <3>1, <3>4
    <3>6. AfterStar(q) = s + 1
      BY <3>3, <3>5
    <3>7. s + 1 \in (q + 1) .. Len(text) /\ (s + 1) - 1 = s /\ s \in a .. (z - 1)
      BY <1>1, <2>1, <2>2, <3>1, <3>5, <3>6
    <3> QED
      BY <3>4, <3>6, <3>7
  <2>3. ASSUME NEW q \in P, AfterStar(q) < Last
        PROVE  text[AfterStar(q)] # "/"
    <3> DEFINE n == AfterStar(q)
    <3>1. n \in (q + 1) .. Len(text) /\ n - 1 \in a .. (z - 1) /\ text[n - 1] = "*"
      BY <2>2, <2>3
    <3>2. q \in Nat
      BY <1>1
    <3> HIDE DEF n
    <3>3. (n - 1) + 1 = n /\ n <= Len(text) /\ n # z
      BY <1>1, <2>1, <3>1, <3>2
    <3>4. ~ (text[n - 1] = "*" /\ text[(n - 1) + 1] = "/")
      BY <1>3, <3>1, <3>3
    <3> QED
      BY <3>1, <3>3, <3>4 DEF n
  <2>4. KeepsTo(P)
    <3> SUFFICES ASSUME NEW q \in P, AfterStar(q) < Last PROVE AfterStar(q) + 1 \in P
      BY DEF KeepsTo
    <3>1. AfterStar(q) \in (q + 1) .. Len(text) /\ q \in Nat /\ q >= a
      BY <1>1, <2>2
    <3> QED
      BY <1>1, <3>1
  <2>5. P \subseteq a .. (Last + 2) /\ a \in P
    BY <1>1
  <2>6. PICK q \in P : /\ AfterStar(q) >= Last \/ text[AfterStar(q)] = "/"
                       /\ BehindStars(a) = IF AfterStar(q) >= Last THEN AfterStar(q) ELSE AfterStar(q) + 1
    <3> HIDE DEF P, a
    <3>1. a \in Nat /\ a >= 1 /\ a <= Last
      BY <1>1
    <3>2. StarsEndIn(P, a)
      BY <3>1, <2>4, <2>5, StarsStop
    <3> QED
      BY <3>2, Zenon DEF StarsEndIn
  <2>7. AfterStar(q) \in Nat
    <3>1. q \in Nat /\ q >= 1
      BY <1>1
    <3> QED
      BY <3>1, AfterStarType
  <2>8. AfterStar(q) >= Last
    <3>1. ~ (AfterStar(q) < Last) => AfterStar(q) >= Last
      BY <1>1, <2>7
    <3> QED
      BY <2>3, <2>6, <3>1
  <2>9. BehindStars(a) >= Last
    BY <2>6, <2>8
  <2> QED
    BY <1>5, <2>9, Zenon DEF IsBehind
<1> QED
  BY <1>4, <1>5

(* The same of a comment from p to z, of whichever kind.                   *)
StarsApart(p, z) == \A q \in p .. (z - 2) : Mode(text, comments)[q] = "block" => ~ (text[q] = "*" /\ text[q + 1] = "*")

(***************************************************************************)
(* The cursor is put behind a comment, if there are no two stars in a row  *)
(* in it.                                                                  *)
(***************************************************************************)
LEMMA CommentPassed ==
  ASSUME Given, NEW p \in 1 .. Len(text), IsComment(p), Mode(text, comments)[p] = Fresh(text, comments, p)
  PROVE  \E z \in p .. Last : CommentTo(text, comments, p, z) /\ (StarsApart(p, z) => IsBehind(z, BehindComment(p)))
<1>1. Last \in Nat /\ Len(text) \in Nat /\ Last = Len(text) + 1 /\ p \in Nat /\ p >= 1 /\ p <= Len(text)
  BY LastType
<1>2. At(text, p) = text[p]
  BY DEF At
<1>3. CASE comments = "hash" \/ At(text, p + 1) = "/"
  <2>1. Mode(text, comments)[p] = "line"
    BY <1>3, CommentBegins
  <2>2. PICK z \in p .. (Len(text) + 1) : LineTo(text, comments, p, z)
    BY <1>1, <2>1, LineExists
  <2>3. CommentTo(text, comments, p, z)
    BY <1>1, <2>2, LineIsComment
  <2>4. z \in p .. Last /\ z \in Nat /\ (z <= Len(text) => text[z] = "\n") /\ \A q \in p .. (z - 1) : text[q] # "\n"
    BY <1>1, <2>2 DEF LineTo
  <2>5. CASE comments # "hash"
    <3>1. BehindComment(p) = BehindLine(p)
      BY <1>3, <2>5, Zenon DEF BehindComment
    <3>2. p <= Last
      BY <1>1
    <3> QED
      BY <1>1, <2>3, <2>4, <3>1, <3>2, BehindLineFinds
  <2>6. CASE comments = "hash"
    <3>1. BehindComment(p) = BehindLine(p + 1)
      BY <2>6, Zenon DEF BehindComment
    <3>2. text[p] # "\n"
      BY <1>2, <2>6 DEF IsComment
    <3>3. z # p
      BY <1>1, <2>4, <3>2
    <3>4. p + 1 \in Nat /\ p + 1 >= 1 /\ p + 1 <= Last /\ z \in (p + 1) .. Last
      BY <1>1, <2>4, <3>3
    <3>5. \A q \in (p + 1) .. (z - 1) : text[q] # "\n"
      <4>1. \A q \in (p + 1) .. (z - 1) : q \in p .. (z - 1)
        BY <1>1, <2>4
      <4> QED
        BY <2>4, <4>1
    <3>6. IsBehind(z, BehindLine(p + 1))
      BY <2>4, <3>4, <3>5, BehindLineFinds
    <3> QED
      BY <2>3, <2>4, <3>1, <3>6
  <2> QED
    BY <2>5, <2>6
<1>4. CASE ~ (comments = "hash" \/ At(text, p + 1) = "/")
  <2>1. Mode(text, comments)[p] = "slash" /\ At(text, p + 1) = "*"
    BY <1>4, CommentBegins
  <2>2. p + 1 <= Len(text)
    <3>1. At(text, p + 1) # NUL /\ p + 1 \in Nat /\ p + 1 >= 1
      BY <1>1, <2>1 DEF NUL
    <3> QED
      BY <3>1, InText
  <2>3. PICK z \in (p + 2) .. (Len(text) + 1) : StarsTo(text, comments, p, z)
    BY <1>1, <2>1, <2>2, StarsExist
  <2>4. CommentTo(text, comments, p, z)
    BY <1>1, <2>3, StarsAreComment
  <2>5. z \in (p + 2) .. Last /\ z \in p .. Last /\ z \in Nat
    BY <1>1, <2>3
  <2>6. ASSUME StarsApart(p, z)
        PROVE  IsBehind(z, BehindComment(p))
    <3>1. Unstarred(p + 2, z)
      <4> SUFFICES ASSUME NEW q \in (p + 2) .. (z - 2) PROVE ~ (text[q] = "*" /\ text[q + 1] = "*")
        BY DEF Unstarred
      <4>1. q \in p .. (z - 2) /\ q \in (p + 2) .. (z - 1)
        BY <1>1, <2>5
      <4>2. Mode(text, comments)[q] = "block"
        BY <2>3, <4>1 DEF StarsTo
      <4> QED
        BY <2>6, <4>1, <4>2 DEF StarsApart
    <3>2. IsBehind(z, BehindStars(p + 2))
      BY <2>3, <2>5, <3>1, BehindStarsFinds
    <3>3. BehindComment(p) = BehindStars(p + 2)
      BY <1>4, Zenon DEF BehindComment
    <3> QED
      BY <3>2, <3>3
  <2> QED
    BY <2>4, <2>5, <2>6
<1> QED
  BY <1>3, <1>4

-----------------------------------------------------------------------------
(* The cursor at the next token, and at the next key.                      *)

(***************************************************************************)
(* At what begins anew and is no comment, the next character does, unless  *)
(* that is a quote.                                                        *)
(***************************************************************************)
LEMMA BeginsAnew ==
  ASSUME Given, NEW p \in 1 .. Len(text), Mode(text, comments)[p] = Fresh(text, comments, p), ~ IsComment(p)
  PROVE  /\ Mode(text, comments)[p] \notin Comment
         /\ text[p] # "\"" /\ p + 1 <= Len(text) => Mode(text, comments)[p + 1] = Fresh(text, comments, p + 1)
<1>1. Len(text) \in Nat /\ p \in Nat /\ p >= 1
  BY LastType
<1>2. Mode(text, comments)[p] \in {"open", "code"}
  BY CommentBegins, FreshCases
<1>3. text[p] # "\"" => Mode(text, comments)[p] = "code"
  <2>1. text[p] = "\"" <=> Fresh(text, comments, p) = "open"
    BY FreshCases
  <2> QED
    BY <1>2, <2>1, Zenon
<1>4. ASSUME text[p] # "\"", p + 1 <= Len(text)
      PROVE  Mode(text, comments)[p + 1] = Fresh(text, comments, p + 1)
  <2>1. p + 1 \in 2 .. Len(text) /\ (p + 1) - 1 = p
    <3>1. p + 1 <= Len(text)
      BY <1>4
    <3> HIDE <1>4
    <3> QED
      BY <1>1, <3>1
  <2>2. Mode(text, comments)[p + 1] = ModeAfter(text, comments, Mode(text, comments)[(p + 1) - 1], p + 1)
    BY <1>1, <2>1, OpenIs
  <2>3. Mode(text, comments)[p + 1] = ModeAfter(text, comments, "code", p + 1)
    BY <1>3, <1>4, <2>1, <2>2, Zenon
  <2> QED
    BY <2>3, AfterCode
<1> QED
  BY <1>2, <1>4 DEF Comment

(* The next token is at e: what is in front of it is white space or        *)
(* comment.                                                                *)
TokenAt(e) ==
  /\ e \in 2 .. Last
  /\ \A q \in 2 .. (e - 1) : Mode(text, comments)[q] \in Comment \/ text[q] \in Space
  /\ e <= Len(text) => Mode(text, comments)[e] \notin Comment /\ text[e] \notin Space

(***************************************************************************)
(* So it is at the next token.                                             *)
(***************************************************************************)
LEMMA NextTokenIs ==
  ASSUME Given
  PROVE  TokenAt(NextToken(text, comments, 2))
<1> DEFINE tokens == {q \in 2 .. Len(text) : Mode(text, comments)[q] \notin Comment /\ text[q] \notin Space}
           e == NextToken(text, comments, 2)
<1>1. Len(text) \in Nat \ {0} /\ Last = Len(text) + 1 /\ Last \in Nat
  BY LastType
<1>2. e = IF tokens = {} THEN Len(text) + 1 ELSE CHOOSE q \in tokens : \A r \in tokens : q <= r
  BY Zenon DEF NextToken
<1>3. tokens \in SUBSET Nat
  BY <1>1
<1>4. CASE tokens = {}
  <2>1. e = Last
    BY <1>1, <1>2, <1>4
  <2>2. \A q \in 2 .. (Last - 1) : Mode(text, comments)[q] \in Comment \/ text[q] \in Space
    <3>1. Last - 1 = Len(text)
      BY <1>1
    <3> QED
      BY <1>4, <3>1
  <2>3. Last \in 2 .. Last /\ ~ (Last <= Len(text))
    BY <1>1
  <2>4. TokenAt(Last)
    BY <2>2, <2>3, Zenon DEF TokenAt
  <2> HIDE DEF e
  <2>5. TokenAt(e)
    BY <2>1, <2>4, Zenon
  <2> QED
    BY <2>5 DEF e
<1>5. CASE tokens # {}
  <2>1. \E q \in tokens : \A r \in tokens : q <= r
    <3> HIDE DEF tokens
    <3> QED
      BY <1>3, <1>5, LeastExists
  <2>2. e \in tokens /\ \A r \in tokens : e <= r
    <3> HIDE DEF tokens
    <3> QED
      BY <1>2, <1>5, <2>1, Zenon
  <2> HIDE DEF e
  <2>3. e \in 2 .. Len(text) /\ Mode(text, comments)[e] \notin Comment /\ text[e] \notin Space
    BY <2>2
  <2>4. \A q \in 2 .. (e - 1) : Mode(text, comments)[q] \in Comment \/ text[q] \in Space
    <3> SUFFICES ASSUME NEW q \in 2 .. (e - 1), Mode(text, comments)[q] \notin Comment, text[q] \notin Space PROVE FALSE
      OBVIOUS
    <3>1. q \in tokens /\ ~ (e <= q)
      BY <1>1, <2>3
    <3> QED
      BY <2>2, <3>1
  <2>5. e \in 2 .. Last
    BY <1>1, <2>3
  <2>6. TokenAt(e)
    BY <2>3, <2>4, <2>5 DEF TokenAt
  <2> QED
    BY <2>6 DEF e
<1> QED
  BY <1>4, <1>5

(* What begins at p begins anew.                                           *)
Anew(p) == p <= Len(text) => Mode(text, comments)[p] = Fresh(text, comments, p)

(* trim_left has not passed the token; behind white space the cursor is    *)
(* not at a comment, which only a checked one would pass.                  *)
Trimmed(end) ==
  /\ phase \in {"called", "spaces"} => first <= end /\ Anew(first)
  /\ phase = "spaces" => ~ Checked /\ first >= 3 /\ Mode(text, comments)[first - 1] \notin Comment
  /\ phase = "done" => first = end
Trimming == call = "trim" /\ Trimmable => Trimmed(NextToken(text, comments, 2))

(* move_to_next_of has not passed a key.                                   *)
Seeking ==
  call = "next" /\ Starless(FirstKey) =>
    /\ phase = "called" => Anew(first) /\ \A p \in KeyPlaces : first <= p
    /\ phase = "done" => KeyPlaces # {} /\ first = FirstKey

(***************************************************************************)
(* A comment in front of the next token is passed.                         *)
(***************************************************************************)
LEMMA PassedToToken ==
  ASSUME Given, NEW e, TokenAt(e), Starless(e), ~ Checked => e <= Len(text),
         NEW p \in 2 .. e, IsComment(p), Anew(p)
  PROVE  BehindComment(p) \in p .. e /\ Anew(BehindComment(p))
<1>1. Last \in Nat /\ Len(text) \in Nat /\ Last = Len(text) + 1 /\ e \in Nat /\ p \in Nat /\ p >= 2 /\ p <= e /\ e <= Last /\ e >= 2
  BY LastType DEF TokenAt
<1>2. p \in 1 .. Len(text)
  <2>1. At(text, p) # NUL
    BY DEF IsComment, NUL
  <2>2. p <= Len(text)
    BY <1>1, <2>1, InText
  <2> QED
    BY <1>1, <2>2
<1>3. Mode(text, comments)[p] = Fresh(text, comments, p)
  BY <1>1, <1>2 DEF Anew
<1>4. PICK z \in p .. Last : CommentTo(text, comments, p, z) /\ (StarsApart(p, z) => IsBehind(z, BehindComment(p)))
  BY <1>2, <1>3, CommentPassed
<1>5. z \in Nat /\ z >= p /\ z <= Last
  BY <1>1
<1>6. z < e \/ (z = Last /\ e = Last)
  <2>1. CASE e <= Len(text)
    <3>1. Mode(text, comments)[e] \notin Comment
      BY <2>1 DEF TokenAt
    <3>2. e \notin p .. z
      BY <1>4, <2>1, <3>1 DEF CommentTo
    <3> QED
      BY <1>1, <1>5, <3>2
  <2>2. CASE ~ (e <= Len(text))
    BY <1>1, <1>5, <2>2
  <2> QED
    BY <2>1, <2>2
<1>7. StarsApart(p, z)
  <2> SUFFICES ASSUME NEW q \in p .. (z - 2), Mode(text, comments)[q] = "block"
               PROVE  ~ (text[q] = "*" /\ text[q + 1] = "*")
    BY DEF StarsApart
  <2>1. q \in 2 .. (e - 2)
    BY <1>1, <1>5, <1>6
  <2> QED
    BY <2>1 DEF Starless
<1>8. CASE z <= Len(text)
  <2>1. BehindComment(p) = z + 1
    BY <1>4, <1>7, <1>8, Zenon DEF IsBehind
  <2>2. z < e
    BY <1>1, <1>6, <1>8
  <2>3. z + 1 \in p .. e
    BY <1>1, <1>5, <2>2
  <2>4. Anew(z + 1)
    BY <1>4 DEF CommentTo, Anew
  <2> QED
    BY <2>1, <2>3, <2>4
<1>9. CASE ~ (z <= Len(text))
  <2>1. e = Last /\ Checked
    BY <1>1, <1>5, <1>6, <1>9
  <2>2. BehindComment(p) >= Last
    BY <1>4, <1>7, <1>9, Zenon DEF IsBehind
  <2>3. BehindComment(p) \in p .. (Last + 2) /\ BehindComment(p) <= Last
    <3>1. p \in Nat /\ p >= 1
      BY <1>1
    <3> QED
      BY <2>1, <3>1, BehindCommentStays
  <2> DEFINE b == BehindComment(p)
  <2> HIDE DEF b
  <2>4. b \in Nat /\ b >= Last /\ b <= Last
    BY <1>1, <2>2, <2>3 DEF b
  <2>5. b = Last
    BY <1>1, <2>4
  <2>6. Last \in p .. e /\ ~ (Last <= Len(text))
    BY <1>1, <2>1
  <2>7. b \in p .. e /\ Anew(b)
    BY <2>5, <2>6 DEF Anew
  <2> QED
    BY <2>7 DEF b
<1> QED
  BY <1>8, <1>9

(***************************************************************************)
(* Whatever trim_left does, it does not pass the token.                    *)
(***************************************************************************)
LEMMA TrimmingKept ==
  ASSUME Inv, Trimming, TrimComment \/ TrimSpace \/ TrimEnd
  PROVE  Trimming'
<1> DEFINE e == NextToken(text, comments, 2)
<1>1. call = "trim" /\ phase \in {"called", "spaces"} /\ Given /\ UNCHANGED given
  BY DEF TrimComment, TrimSpace, TrimEnd, Move, Return, Inv, given
<1>2. call' = call /\ text' = text /\ comments' = comments /\ bound' = bound
  BY <1>1 DEF given
<1>3. Trimmable' = Trimmable /\ Checked' = Checked
  BY <1>2, Zenon DEF Trimmable, Starless, Checked
<1> SUFFICES ASSUME Trimmable
             PROVE  Trimmed(e)'
  BY <1>2, <1>3, Zenon DEF Trimming
<1>4. Trimmed(e)
  BY <1>1, Zenon DEF Trimming
<1>5. TokenAt(e)
  BY <1>1, NextTokenIs
<1>6. /\ Starless(e) /\ (~ Checked => e <= Len(text))
      /\ ~ Checked => \A p \in 2 .. (e - 2) : Mode(text, comments)[p] \notin Comment => Mode(text, comments)[p + 1] \notin Comment
  BY Zenon DEF Trimmable
<1>7. e' = e
  BY <1>2, Zenon
<1> HIDE DEF e
<1>8. Last \in Nat /\ Len(text) \in Nat /\ Last = Len(text) + 1 /\ e \in Nat /\ e >= 2 /\ e <= Last
  BY <1>1, <1>5, LastType DEF TokenAt
<1>9. first \in Nat /\ first >= 2 /\ first <= e /\ Anew(first)
  <2>1. first \in start .. (2 * Len(text) + 4) /\ start = 2
    <3>1. call # "item"
      BY <1>1
    <3> QED
      BY <3>1 DEF Inv, Cursor, Given
  <2>2. first <= e /\ Anew(first)
    BY <1>1, <1>4, Zenon DEF Trimmed
  <2> QED
    BY <1>8, <2>1, <2>2
<1>10. ASSUME first' \in 2 .. e, Anew(first'), phase' = "called"
       PROVE  Trimmed(e)'
  <2>1. Anew(first)'
    BY <1>2, <1>10, Zenon DEF Anew
  <2>2. first' <= e
    BY <1>8, <1>10
  <2>3. phase' \in {"called", "spaces"} /\ phase' # "spaces" /\ phase' # "done"
    BY <1>10
  <2> QED
    BY <1>7, <2>1, <2>2, <2>3, Zenon DEF Trimmed
<1>11. CASE TrimComment
  <2> DEFINE b == BehindComment(first)
  <2>1. IsComment(first) /\ phase = "called" /\ first' = b /\ phase' = IF bound # "range" /\ b > Last THEN "astray" ELSE phase
    BY <1>11, Zenon DEF TrimComment, Move
  <2>2. first \in 2 .. e
    BY <1>8, <1>9
  <2>3. b \in first .. e /\ Anew(b)
    BY <1>1, <1>5, <1>6, <1>9, <2>1, <2>2, PassedToToken
  <2> HIDE DEF b
  <2>4. b \in 2 .. e /\ ~ (b > Last)
    BY <1>8, <1>9, <2>3
  <2>5. phase' = "called"
    BY <2>1, <2>4, Zenon
  <2> QED
    BY <1>10, <2>1, <2>3, <2>4, <2>5
<1>12. CASE TrimSpace
  <2>1. /\ first' = first + 1 /\ phase' = (IF Checked THEN phase ELSE "spaces")
        /\ At(text, first) \in Space /\ (phase = "called" => ~ IsComment(first))
    BY <1>12, Zenon DEF TrimSpace
  <2>2. first \in 1 .. Len(text)
    <3>1. At(text, first) # NUL
      BY <2>1 DEF Space, NUL
    <3>2. first <= Len(text)
      <4>1. first >= 1
        BY <1>9
      <4> QED
        BY <1>1, <1>9, <3>1, <4>1, InText
    <3> QED
      BY <1>9, <3>2
  <2>3. text[first] \in Space
    BY <2>1, <2>2, Zenon DEF At
  <2>4. ~ IsComment(first) /\ text[first] # "\""
    BY <2>1, <2>3 DEF IsComment, Space
  <2>5. Mode(text, comments)[first] = Fresh(text, comments, first)
    BY <1>9, <2>2 DEF Anew
  <2>6. Mode(text, comments)[first] \notin Comment /\ Anew(first + 1)
    BY <1>1, <2>2, <2>4, <2>5, BeginsAnew DEF Anew
  <2>7. first # e
    <3> SUFFICES ASSUME first = e PROVE FALSE
      OBVIOUS
    <3>1. first <= Len(text)
      BY <1>8, <2>2
    <3>2. text[e] \notin Space
      BY <1>5, <3>1 DEF TokenAt
    <3> QED
      BY <2>3, <3>2
  <2>8. first + 1 \in 2 .. e /\ first + 1 <= e /\ first + 1 >= 3 /\ (first + 1) - 1 = first
    BY <1>8, <1>9, <2>7
  <2>9. CASE Checked
    <3>1. phase' = "called"
      <4>1. phase # "spaces"
        BY <1>4, <2>9, Zenon DEF Trimmed
      <4> QED
        BY <1>1, <2>1, <2>9, <4>1
    <3> QED
      BY <1>10, <2>1, <2>6, <2>8, <3>1
  <2>10. CASE ~ Checked
    <3>1. phase' = "spaces"
      BY <2>1, <2>10
    <3>2. Anew(first)'
      BY <1>2, <2>1, <2>6, Zenon DEF Anew
    <3>3. Mode(text', comments')[first' - 1] \notin Comment
      <4>1. first' - 1 = first
        BY <2>1, <2>8
      <4> QED
        BY <1>2, <2>6, <4>1, Zenon
    <3>4. first' <= e /\ first' >= 3 /\ ~ Checked'
      BY <1>3, <2>1, <2>8, <2>10
    <3>5. phase' # "done"
      BY <3>1
    <3> QED
      BY <1>7, <3>1, <3>2, <3>3, <3>4, <3>5, Zenon DEF Trimmed
  <2> QED
    BY <2>9, <2>10
<1>13. CASE TrimEnd
  <2>1. first' = first /\ phase' = "done" /\ At(text, first) \notin Space /\ (phase = "called" => ~ IsComment(first))
    BY <1>13, Zenon DEF TrimEnd, Return
  <2>2. first = e
    <3> SUFFICES ASSUME first # e PROVE FALSE
      OBVIOUS
    <3>1. first \in 2 .. (e - 1) /\ first \in 1 .. Len(text) /\ first <= Len(text)
      BY <1>8, <1>9
    <3>2. text[first] \notin Space
      BY <2>1, <3>1, Zenon DEF At
    <3>3. Mode(text, comments)[first] \in Comment
      BY <1>5, <3>1, <3>2 DEF TokenAt
    <3>4. Mode(text, comments)[first] = Fresh(text, comments, first)
      BY <1>9, <3>1 DEF Anew
    <3>5. IsComment(first)
      BY <1>1, <3>1, <3>3, <3>4, BeginsAnew
    <3>6. phase = "spaces"
      BY <1>1, <2>1, <3>5
    <3>7. ~ Checked /\ first >= 3 /\ Mode(text, comments)[first - 1] \notin Comment
      BY <1>4, <3>6, Zenon DEF Trimmed
    <3>8. first - 1 \in 2 .. (e - 2) /\ (first - 1) + 1 = first
      BY <1>8, <1>9, <3>1, <3>7
    <3>9. Mode(text, comments)[(first - 1) + 1] \notin Comment
      BY <1>6, <3>7, <3>8, Zenon
    <3> QED
      BY <3>3, <3>8, <3>9, Zenon
  <2>3. phase' \notin {"called", "spaces"} /\ phase' # "spaces"
    BY <2>1
  <2> QED
    BY <1>7, <2>1, <2>2, <2>3, Zenon DEF Trimmed
<1> QED
  BY <1>11, <1>12, <1>13

(***************************************************************************)
(* The first key is one, and no other is in front of it.                   *)
(***************************************************************************)
LEMMA FirstKeyIs ==
  ASSUME Given
  PROVE  /\ KeyPlaces \in SUBSET (2 .. Len(text))
         /\ KeyPlaces = {} => FirstKey = Last
         /\ KeyPlaces # {} => FirstKey \in KeyPlaces /\ \A p \in KeyPlaces : FirstKey <= p
<1>1. Len(text) \in Nat
  BY LastType
<1>2. KeyPlaces \in SUBSET (2 .. Len(text)) /\ KeyPlaces \in SUBSET Nat
  BY <1>1 DEF KeyPlaces
<1>3. KeyPlaces = {} => FirstKey = Last
  BY Zenon DEF FirstKey
<1>4. ASSUME KeyPlaces # {}
      PROVE  FirstKey \in KeyPlaces /\ \A p \in KeyPlaces : FirstKey <= p
  <2>1. FirstKey = Min(KeyPlaces)
    BY <1>4, Zenon DEF FirstKey
  <2>2. Min(KeyPlaces) \in KeyPlaces /\ \A p \in KeyPlaces : Min(KeyPlaces) <= p
    BY <1>2, <1>4, MinIsLeast
  <2> QED
    BY <2>1, <2>2
<1> QED
  BY <1>2, <1>3, <1>4

(***************************************************************************)
(* A comment in front of the keys is passed, and nothing but it.           *)
(***************************************************************************)
LEMMA PassedToKey ==
  ASSUME Given, Starless(FirstKey), NEW p \in Nat, p >= 2, IsComment(p), Anew(p), \A k \in KeyPlaces : p <= k
  PROVE  \/ BehindComment(p) \in p .. Last /\ Anew(BehindComment(p)) /\ \A k \in KeyPlaces : BehindComment(p) <= k
         \/ BehindComment(p) >= Last /\ KeyPlaces = {}
<1>1. Last \in Nat /\ Len(text) \in Nat /\ Last = Len(text) + 1
  BY LastType
<1>2. p \in 1 .. Len(text)
  <2>1. At(text, p) # NUL
    BY DEF IsComment, NUL
  <2>2. p >= 1
    OBVIOUS
  <2>3. p <= Len(text)
    BY <2>1, <2>2, InText
  <2> QED
    BY <1>1, <2>2, <2>3
<1>3. Mode(text, comments)[p] = Fresh(text, comments, p)
  BY <1>1, <1>2 DEF Anew
<1>4. PICK z \in p .. Last : CommentTo(text, comments, p, z) /\ (StarsApart(p, z) => IsBehind(z, BehindComment(p)))
  BY <1>2, <1>3, CommentPassed
<1>5. z \in Nat /\ z >= p /\ z <= Last
  BY <1>1
<1>6. \A k \in KeyPlaces : k \in Nat /\ k > z /\ k <= Len(text)
  <2> SUFFICES ASSUME NEW k \in KeyPlaces PROVE k \in Nat /\ k > z /\ k <= Len(text)
    OBVIOUS
  <2>1. k \in 2 .. Len(text) /\ p <= k
    BY FirstKeyIs
  <2>2. Mode(text, comments)[k] \notin Comment
    BY DEF KeyPlaces
  <2>3. k \notin p .. z
    BY <1>4, <2>1, <2>2 DEF CommentTo
  <2> HIDE <2>2
  <2> QED
    BY <1>1, <1>5, <2>1, <2>3
<1>7. FirstKey \in Nat /\ (FirstKey > z \/ (FirstKey = Last /\ z = Last))
  <2>1. CASE KeyPlaces = {}
    <3>1. FirstKey = Last
      BY <2>1, FirstKeyIs
    <3> QED
      BY <1>1, <1>5, <3>1
  <2>2. CASE KeyPlaces # {}
    <3>1. FirstKey \in KeyPlaces
      BY <2>2, FirstKeyIs
    <3> QED
      BY <1>6, <3>1
  <2> QED
    BY <2>1, <2>2
<1>8. StarsApart(p, z)
  <2> SUFFICES ASSUME NEW q \in p .. (z - 2), Mode(text, comments)[q] = "block"
               PROVE  ~ (text[q] = "*" /\ text[q + 1] = "*")
    BY DEF StarsApart
  <2>1. q \in 2 .. (FirstKey - 2)
    BY <1>1, <1>5, <1>7
  <2> QED
    BY <2>1 DEF Starless
<1>9. CASE z <= Len(text)
  <2>1. BehindComment(p) = z + 1
    BY <1>4, <1>8, <1>9, Zenon DEF IsBehind
  <2>2. z + 1 \in p .. Last
    BY <1>1, <1>5, <1>9
  <2>3. Anew(z + 1)
    BY <1>4 DEF CommentTo, Anew
  <2>4. \A k \in KeyPlaces : z + 1 <= k
    BY <1>5, <1>6
  <2> QED
    BY <2>1, <2>2, <2>3, <2>4
<1>10. CASE ~ (z <= Len(text))
  <2>1. BehindComment(p) >= Last
    BY <1>4, <1>8, <1>10, Zenon DEF IsBehind
  <2>2. KeyPlaces = {}
    <3> SUFFICES ASSUME NEW k \in KeyPlaces PROVE FALSE
      OBVIOUS
    <3>1. k \in Nat /\ k > z /\ k <= Len(text)
      BY <1>6
    <3> QED
      BY <1>1, <1>5, <1>10, <3>1
  <2> QED
    BY <2>1, <2>2
<1> QED
  BY <1>9, <1>10

(***************************************************************************)
(* Whatever move_to_next_of does, it does not pass a key.                  *)
(***************************************************************************)
LEMMA SeekingKept ==
  ASSUME Inv, Seeking, NextComment \/ NextOther \/ NextFound \/ NextMissing
  PROVE  Seeking'
<1>1. call = "next" /\ phase = "called" /\ Given /\ UNCHANGED given
  BY DEF NextComment, NextOther, NextFound, NextMissing, Move, Return, Fail, Inv, given
<1>2. call' = call /\ text' = text /\ comments' = comments /\ bound' = bound
  BY <1>1 DEF given
<1>3. Last' = Last /\ KeyPlaces' = KeyPlaces
  BY <1>2, Zenon DEF KeyPlaces, Last
<1>4. FirstKey' = FirstKey /\ (Starless(FirstKey))' = Starless(FirstKey)
  BY <1>2, <1>3, Zenon DEF FirstKey, Starless
<1> SUFFICES ASSUME Starless(FirstKey)
             PROVE  /\ phase' = "called" => Anew(first') /\ \A p \in KeyPlaces : first' <= p
                    /\ phase' = "done" => KeyPlaces # {} /\ first' = FirstKey
  <2>1. Anew(first)' <=> Anew(first')
    BY <1>2, Zenon DEF Anew
  <2> QED
    BY <1>2, <1>3, <1>4, <2>1, Zenon DEF Seeking
<1>5. Anew(first) /\ \A p \in KeyPlaces : first <= p
  BY <1>1, Zenon DEF Seeking
<1>6. Last \in Nat /\ Len(text) \in Nat /\ Last = Len(text) + 1
  BY <1>1, LastType
<1>7. first \in Nat /\ first >= 2 /\ first <= Last
  <2>1. first \in start .. (2 * Len(text) + 4) /\ start = 2 /\ first <= Last
    <3>1. call # "item"
      BY <1>1
    <3> QED
      BY <1>1, <3>1 DEF Inv, Cursor, Given
  <2> QED
    BY <1>6, <2>1
<1>8. \A p \in KeyPlaces : p \in Nat /\ p <= Len(text)
  BY <1>1, <1>6, FirstKeyIs
<1>9. CASE NextComment
  <2> DEFINE b == BehindComment(first)
  <2>1. IsComment(first) /\ first' = b /\ phase' = IF bound # "range" /\ b > Last THEN "astray" ELSE phase
    BY <1>9, Zenon DEF NextComment, Move
  <2>2. \/ b \in first .. Last /\ Anew(b) /\ \A k \in KeyPlaces : b <= k
        \/ b >= Last /\ KeyPlaces = {}
    BY <1>1, <1>5, <1>7, <2>1, PassedToKey
  <2>3. b \in Nat
    <3>1. first \in Nat /\ first >= 1
      BY <1>7
    <3>2. b \in first .. (Last + 2)
      BY <1>1, <2>1, <3>1, BehindCommentStays
    <3> QED
      BY <1>6, <1>7, <3>2
  <2> HIDE DEF b
  <2>4. phase' # "done"
    BY <1>1, <2>1
  <2>5. CASE b \in first .. Last /\ Anew(b) /\ \A k \in KeyPlaces : b <= k
    BY <2>1, <2>4, <2>5
  <2>6. CASE b >= Last /\ KeyPlaces = {}
    <3>1. Anew(b)
      <4>1. ~ (b <= Len(text))
        BY <1>6, <2>3, <2>6
      <4> QED
        BY <4>1 DEF Anew
    <3> QED
      BY <2>1, <2>4, <2>6, <3>1
  <2> QED
    BY <2>2, <2>5, <2>6
<1>10. CASE NextOther
  <2>1. /\ first' = first + 1 /\ phase' = IF first >= Last THEN "astray" ELSE phase
        /\ ~ IsComment(first) /\ At(text, first) \notin Keys
    BY <1>10, Zenon DEF NextOther
  <2>2. phase' # "done"
    BY <1>1, <2>1
  <2>3. CASE first >= Last
    <3>1. phase' = "astray"
      BY <2>1, <2>3
    <3> QED
      BY <3>1
  <2>4. CASE ~ (first >= Last)
    <3>1. first \in 1 .. Len(text) /\ first <= Len(text)
      BY <1>6, <1>7, <2>4
    <3>2. text[first] \notin Keys
      BY <2>1, <3>1, Zenon DEF At
    <3>3. text[first] # "\""
      BY <3>2, KeysAssumption
    <3>4. Mode(text, comments)[first] = Fresh(text, comments, first)
      BY <1>5, <3>1 DEF Anew
    <3>5. Anew(first + 1)
      BY <1>1, <2>1, <3>1, <3>3, <3>4, BeginsAnew DEF Anew
    <3>6. first \notin KeyPlaces
      BY <3>2 DEF KeyPlaces
    <3>7. \A p \in KeyPlaces : first + 1 <= p
      <4> SUFFICES ASSUME NEW p \in KeyPlaces PROVE first + 1 <= p
        OBVIOUS
      <4>1. p \in Nat /\ first <= p /\ first # p
        BY <1>5, <1>8, <3>6
      <4> QED
        BY <1>7, <4>1
    <3> QED
      BY <2>1, <2>2, <3>5, <3>7
  <2> QED
    BY <2>3, <2>4
<1>11. CASE NextFound
  <2>1. first' = first /\ phase' = "done" /\ ~ IsComment(first) /\ At(text, first) \in Keys
    BY <1>11, Zenon DEF NextFound, Return
  <2>2. first <= Len(text)
    <3>1. At(text, first) # NUL
      BY <2>1, KeysAssumption
    <3>2. first >= 1
      BY <1>7
    <3> QED
      BY <1>1, <1>7, <3>1, <3>2, InText
  <2>3. first \in 1 .. Len(text) /\ first \in 2 .. Len(text)
    BY <1>6, <1>7, <2>2
  <2>4. text[first] \in Keys
    BY <2>1, <2>3, Zenon DEF At
  <2>5. Mode(text, comments)[first] = Fresh(text, comments, first)
    BY <1>5, <2>2 DEF Anew
  <2>6. Mode(text, comments)[first] \notin Comment
    BY <1>1, <2>1, <2>3, <2>5, BeginsAnew
  <2>7. first \in KeyPlaces
    BY <2>3, <2>4, <2>6, Zenon DEF KeyPlaces
  <2>8. FirstKey \in KeyPlaces /\ FirstKey <= first
    BY <1>1, <2>7, FirstKeyIs
  <2>9. first <= FirstKey /\ FirstKey \in Nat
    BY <1>5, <1>8, <2>8
  <2>10. first = FirstKey
    BY <1>7, <2>8, <2>9
  <2> QED
    BY <2>1, <2>7, <2>10
<1>12. CASE NextMissing
  <2>1. phase' = "failed"
    BY <1>12 DEF NextMissing, Fail
  <2> QED
    BY <2>1
<1> QED
  BY <1>9, <1>10, <1>11, <1>12

(* None of the three calls has passed what it looks for.                   *)
Stopping == Trimming /\ Seeking /\ SkipsToQuote

(***************************************************************************)
(* A call begins where it has passed nothing.                              *)
(***************************************************************************)
LEMMA StoppingInit ==
  ASSUME Init, Inv
  PROVE  Stopping
<1>1. phase = "called" /\ Given
  BY DEF Init, Inv
<1>2. Len(text) \in Nat \ {0} /\ Last = Len(text) + 1 /\ Last \in Nat
  BY <1>1, LastType
<1>3. call # "string" /\ start = 2 => Anew(start)
  <2> SUFFICES ASSUME call # "string", 2 <= Len(text)
               PROVE  Mode(text, comments)[2] = Fresh(text, comments, 2)
    BY DEF Anew
  <2>1. 1 \in 1 .. Len(text) /\ 2 \in 2 .. Len(text) /\ 2 - 1 = 1
    BY <1>2
  <2>2. text[1] \in Left
    BY <1>1 DEF Given
  <2>3. Mode(text, comments)[1] = ModeAfter(text, comments, Before(Mode(text, comments), 1), 1)
    BY <1>2, <2>1, ModeIs
  <2>4. Mode(text, comments)[1] = Fresh(text, comments, 1)
    BY <2>3, AfterCode DEF Before
  <2>5. Fresh(text, comments, 1) = "code"
    BY <2>2 DEF Fresh, Left
  <2>6. Mode(text, comments)[2] = ModeAfter(text, comments, Mode(text, comments)[2 - 1], 2)
    BY <1>2, <2>1, OpenIs
  <2>7. Mode(text, comments)[2] = ModeAfter(text, comments, "code", 2)
    BY <2>1, <2>4, <2>5, <2>6, Zenon
  <2> QED
    BY <2>7, AfterCode
<1>4. first = start
  BY DEF Init
<1>5. Trimming
  <2> SUFFICES ASSUME call = "trim" PROVE Trimmed(NextToken(text, comments, 2))
    BY DEF Trimming
  <2>1. start = 2
    BY <1>1, Zenon DEF Given
  <2>2. TokenAt(NextToken(text, comments, 2))
    BY <1>1, NextTokenIs
  <2>3. 2 <= NextToken(text, comments, 2)
    BY <1>2, <2>2 DEF TokenAt
  <2>4. Anew(2)
    BY <1>3, <2>1
  <2> QED
    BY <1>1, <1>4, <2>1, <2>3, <2>4 DEF Trimmed
<1>6. Seeking
  <2> SUFFICES ASSUME call = "next" PROVE Anew(first) /\ \A p \in KeyPlaces : first <= p
    BY <1>1 DEF Seeking
  <2>1. start = 2
    BY <1>1, Zenon DEF Given
  <2>2. Anew(2)
    BY <1>3, <2>1
  <2>3. \A p \in KeyPlaces : 2 <= p
    BY <1>1, <1>2, FirstKeyIs
  <2> QED
    BY <1>4, <2>1, <2>2, <2>3
<1>7. SkipsToQuote
  <2>1. phase = "called" /\ phase # "done" /\ phase \in {"called", "done"}
    BY <1>1
  <2> QED
    BY <2>1, Zenon DEF SkipsToQuote
<1> QED
  BY <1>5, <1>6, <1>7 DEF Stopping

(***************************************************************************)
(* A step is one of the call that was made.                                *)
(***************************************************************************)
LEMMA StepOfCall ==
  ASSUME Inv, Next
  PROVE  /\ UNCHANGED given
         /\ call = "trim" => TrimComment \/ TrimSpace \/ TrimEnd
         /\ call = "next" => NextComment \/ NextOther \/ NextFound \/ NextMissing
         /\ call = "string" => SkipString
<1>1. CASE TrimComment \/ TrimSpace \/ TrimEnd
  BY <1>1 DEF TrimComment, TrimSpace, TrimEnd, Move, Return, given
<1>2. CASE NextComment \/ NextOther \/ NextFound \/ NextMissing
  BY <1>2 DEF NextComment, NextOther, NextFound, NextMissing, Move, Return, Fail, given
<1>3. CASE SkipString
  <2>1. UNCHANGED given
    BY <1>3, Zenon DEF SkipString, Return, Move, Fail
  <2>2. call = "string"
    BY <1>3 DEF SkipString
  <2> QED
    BY <1>3, <2>1, <2>2
<1>4. CASE ~ (TrimComment \/ TrimSpace \/ TrimEnd \/ NextComment \/ NextOther \/ NextFound \/ NextMissing \/ SkipString)
  <2>1. call = "item"
    BY <1>4, Zenon DEF Next, Enter, Reads, Escape, String, Comma, PrimLeft, PrimRight, SecLeft, SecRight,
                       SlashComment, HashComment, Pass, RunOut
  <2>2. UNCHANGED given
    BY <1>4, Zenon DEF Next, Enter, Escape, String, Comma, PrimLeft, PrimRight, SecLeft, SecRight,
                       SlashComment, HashComment, Pass, RunOut, Move, Return, Fail, given
  <2> QED
    BY <2>1, <2>2
<1> QED
  BY <1>1, <1>2, <1>3, <1>4

(***************************************************************************)
(* What the calls promise is kept by every step.                           *)
(***************************************************************************)
LEMMA StoppingKept ==
  ASSUME Inv, Stopping, [Next]_vars
  PROVE  Stopping'
<1>1. CASE UNCHANGED vars
  <2>1. /\ call' = call /\ text' = text /\ comments' = comments /\ bound' = bound /\ exec' = exec /\ start' = start
        /\ first' = first /\ cnt' = cnt /\ phase' = phase
    BY <1>1 DEF vars
  <2>2. Trimming'
    BY <2>1, Zenon DEF Stopping, Trimming, Trimmable, Trimmed, Starless, Checked, Anew
  <2>3. Seeking'
    BY <2>1, Zenon DEF Stopping, Seeking, Starless, FirstKey, KeyPlaces, Last, Anew
  <2>4. SkipsToQuote'
    <3>1. IsSplit' = IsSplit
      BY <2>1, Zenon DEF IsSplit, Last
    <3>2. SkipsToQuote' = SkipsToQuote
      BY <2>1, <3>1, Zenon DEF SkipsToQuote, NotesEscape
    <3> QED
      BY <3>2 DEF Stopping
  <2> QED
    BY <2>2, <2>3, <2>4 DEF Stopping
<1>2. CASE Next
  <2>1. call' = call
    BY <1>2, StepOfCall DEF given
  <2>2. Trimming'
    <3>1. CASE call = "trim"
      BY <1>2, <3>1, StepOfCall, TrimmingKept DEF Stopping
    <3>2. CASE call # "trim"
      BY <2>1, <3>2, Zenon DEF Trimming
    <3> QED
      BY <3>1, <3>2
  <2>3. Seeking'
    <3>1. CASE call = "next"
      BY <1>2, <3>1, StepOfCall, SeekingKept DEF Stopping
    <3>2. CASE call # "next"
      BY <2>1, <3>2, Zenon DEF Seeking
    <3> QED
      BY <3>1, <3>2
  <2>4. SkipsToQuote'
    <3>1. CASE call = "string"
      BY <1>2, <3>1, StepOfCall, SkipStringFinds
    <3>2. CASE call # "string"
      BY <2>1, <3>2, Zenon DEF SkipsToQuote
    <3> QED
      BY <3>1, <3>2
  <2> QED
    BY <2>2, <2>3, <2>4 DEF Stopping
<1> QED
  BY <1>1, <1>2

(***************************************************************************)
(* White space, comments and strings are passed as far as the next token,  *)
(* key or closing quote, and no further, however comments are written,     *)
(* however the end of the text is found and however strings are searched:  *)
(* trim_left, move_to_next_of and skip_string agree with a reading of the  *)
(* text that knows none of their loops. This is for texts in which no      *)
(* comment between stars has two in a row; for the unchecked trim_left,    *)
(* comments are closed and not behind white space; and by blocks no escape *)
(* reaches from the last whole block into what is left.                    *)
(***************************************************************************)
THEOREM TokensCorrect == Spec => []StopsAtToken
<1>1. Init => Inv /\ Stopping
  BY InvInit, StoppingInit
<1>2. Inv /\ Stopping /\ [Next]_vars => Stopping'
  BY StoppingKept
<1>3. Stopping => StopsAtToken
  BY Zenon DEF Stopping, Trimming, Trimmed, Seeking, StopsAtToken, TrimsToToken, FindsNextKey
<1>4. Spec => []Inv
  BY InvHolds
<1> QED
  BY <1>1, <1>2, <1>3, <1>4, PTL DEF Spec
=============================================================================
