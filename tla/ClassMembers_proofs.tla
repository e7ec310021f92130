------------------------ MODULE ClassMembers_proofs ------------------------
(***************************************************************************)
(* Theorems about ClassMembers, for every mapping, document and number of  *)
(* members, and for both parse modes.  But for TypeCorrect they assume     *)
(* that no name is taken for another (HashesTellApart) and that an         *)
(* unchecked parse is given what it is meant for (TrustedInput).           *)
(***************************************************************************)
EXTENDS ClassMembers, WellFoundedInduction, TLAPS

\* When names are compared by hash only, no unmapped name that occurs has the
\* hash of a mapped one.
HashesTellApart ==
  FullNameMatch \/ \A n \in Members, k \in Names \ Members : Hash[k] # Hash[n]

\* An object no mapped member of which is absent or null, and no name repeated.
Complete(d) ==
  /\ \A i \in DOMAIN d : ~d[i].null
  /\ \A i, j \in DOMAIN d : d[i].name = d[j].name => i = j
  /\ \A m \in Members : \E i \in DOMAIN d : d[i].name = m

\* An unchecked parse relies on its input: it is for the objects of a generator.
TrustedInput == \A d \in Documents[TRUE] : Complete(d)

-----------------------------------------------------------------------------
(* The cells.                                                              *)

LEMMA CellFacts ==
  ASSUME unchecked \in BOOLEAN, inner \in Documents[unchecked], outer \in Enclosing
  PROVE  /\ End \in Nat /\ Total \in Nat /\ 1 <= End /\ End < Total
         /\ inner \in Seq(Cell) /\ outer \in Seq(Cell)
         /\ \A i \in 1 .. Total : ~IsMember(i) <=> IsBrace(i)
         /\ \A i : IsMember(i) => i \in 1 .. Total /\ CellAt(i) \in Cell
         /\ \A i \in 1 .. End - 1 : IsMember(i) /\ CellAt(i) = inner[i] /\ ~IsBrace(i)
  <1>1. inner \in Seq(Cell) /\ outer \in Seq(Cell)
    BY ConstantsAssumption DEF ConstantsAssumption
  <1>2. End \in Nat /\ Total \in Nat /\ 1 <= End /\ End < Total
    BY <1>1 DEF End, Total
  <1>3. \A i \in 1 .. Total : ~IsMember(i) <=> IsBrace(i)
    BY <1>1, <1>2 DEF IsMember, IsBrace, End, Total
  <1>4. ASSUME NEW i, IsMember(i)
        PROVE  i \in 1 .. Total /\ CellAt(i) \in Cell
    <2>1. i \in Int /\ i \in 1 .. Total
      BY <1>1, <1>2, <1>4 DEF IsMember, End
    <2>2. CASE i < End
      BY <1>1, <2>1, <2>2 DEF CellAt, End
    <2>3. CASE ~(i < End)
      <3>1. i - End \in 1 .. Len(outer)
        BY <1>1, <1>2, <1>4, <2>1, <2>3 DEF IsMember, End, Total
      <3>2. outer[i - End] \in Cell
        BY <1>1, <3>1
      <3>3. QED
        BY <2>1, <2>3, <3>2 DEF CellAt
    <2>4. QED
      BY <2>1, <2>2, <2>3
  <1>5. \A i \in 1 .. End - 1 : IsMember(i) /\ CellAt(i) = inner[i] /\ ~IsBrace(i)
    BY <1>1, <1>2 DEF IsMember, IsBrace, CellAt, End, Total
  <1>6. QED
    BY <1>1, <1>2, <1>3, <1>4, <1>5

\* A set of natural numbers has a least element: the search for a quote, and the
\* loop of find_name, return it.
LEMMA LeastNat ==
  ASSUME NEW T \in SUBSET Nat, T # {}
  PROVE  \E x \in T : \A y \in T : x <= y
  <1>1. PICK x \in T : \A y \in T : ~ (<<y, x>> \in OpToRel(<, Nat))
    BY WFMin, NatLessThanWellFounded
  <1>2. \A y \in T : ~ (y < x)
    BY <1>1 DEF OpToRel
  <1>3. QED
    BY <1>2

LEMMA NextQuoteType ==
  ASSUME unchecked \in BOOLEAN, inner \in Documents[unchecked], outer \in Enclosing, NEW i \in 1 .. Total + 1
  PROVE  NextQuote(i) \in 1 .. Total + 1
  <1>1. Total \in Nat
    BY CellFacts
  <1>2. CASE \E j \in i .. Total : IsMember(j)
    <2> DEFINE T == {j \in i .. Total : IsMember(j)}
    <2>1. T \in SUBSET Nat /\ T # {}
      BY <1>1, <1>2
    <2>2. PICK j \in T : \A k \in T : j <= k
      BY <2>1, LeastNat
    <2>3. j \in i .. Total /\ IsMember(j) /\ \A k \in i .. j - 1 : ~IsMember(k)
      BY <1>1, <2>2
    <2>4. NextQuote(i) \in i .. Total
      BY <1>2, <2>3 DEF NextQuote
    <2>5. QED
      BY <1>1, <2>4
  <1>3. CASE ~ \E j \in i .. Total : IsMember(j)
    BY <1>1, <1>3 DEF NextQuote
  <1>4. QED
    BY <1>2, <1>3

-----------------------------------------------------------------------------
(* find_name.                                                              *)

\* A name found is that of the member it is found as, and every mapped name from
\* "from" on is found: find_name by hash is as good as by name.
LEMMA FindNameIsMember ==
  ASSUME HashesTellApart,
         NEW from \in 1 .. MemberCount, NEW name \in Names
  PROVE  FindName(from, name) =
           IF name \in from .. MemberCount THEN name ELSE MemberCount + 1
  <1> DEFINE hits == {n \in from .. MemberCount :
                        Hash[n] = Hash[name] /\ (FullNameMatch => n = name)}
  <1>1. \A n \in hits : n = name
    BY ConstantsAssumption DEF ConstantsAssumption, HashesTellApart, FullNameMatch, Members, Names
  <1>2. name \in from .. MemberCount <=> name \in hits
    BY <1>1, ConstantsAssumption DEF ConstantsAssumption
  <1>3. CASE hits = {}
    BY <1>2, <1>3 DEF FindName
  <1>4. CASE hits # {}
    <2>1. hits = {name}
      BY <1>1, <1>4
    <2>2. (CHOOSE n \in hits : \A k \in hits : n <= k) = name
      BY <2>1 DEF Names
    <2>3. QED
      BY <1>2, <1>4, <2>1, <2>2 DEF FindName
  <1>5. QED
    BY <1>3, <1>4

-----------------------------------------------------------------------------
(* Types.                                                                  *)

LEMMA TypeFacts ==
  ASSUME TypeOK
  PROVE  /\ MemberCount \in Nat /\ NameCount \in Nat /\ MemberCount <= NameCount
         /\ End \in Nat /\ Total \in Nat /\ 1 <= End /\ End < Total
         /\ mapping \in Mapping
         /\ pos \in 1 .. Total + 1
         /\ member \in 1 .. MemberCount + 1
         /\ \A i \in 1 .. Total : IsMember(i) <=> ~IsBrace(i)
         /\ \A i : IsMember(i) => i \in 1 .. Total /\ CellAt(i) \in Cell
         /\ \A i \in 1 .. End - 1 : IsMember(i) /\ CellAt(i) = inner[i]
         /\ ~IsMember(End) /\ IsBrace(End)
  <1>1. unchecked \in BOOLEAN /\ inner \in Documents[unchecked] /\ outer \in Enclosing
    BY DEF TypeOK
  <1>2. End \in 1 .. Total /\ IsBrace(End)
    BY <1>1, CellFacts DEF IsBrace
  <1>3. mapping \in Mapping
    BY ConstantsAssumption DEF TypeOK, ConstantsAssumption
  <1>4. QED
    BY <1>1, <1>2, <1>3, CellFacts, ConstantsAssumption
       DEF TypeOK, ConstantsAssumption

LEMMA GoToType ==
  ASSUME TypeOK, NEW i \in 1 .. Total + 1, NEW p \in Phases, GoTo(i, p)
  PROVE  pos' \in 1 .. Total + 1 /\ phase' \in Phases
  BY DEF GoTo, Phases

LEMMA TypeStep ==
  ASSUME TypeOK, [Next]_vars
  PROVE  TypeOK'
  <1>0. UNCHANGED document => (Total' = Total /\ End' = End)
    BY DEF document, Total, End
  <1>a. ASSUME NEW r \in Reasons, Fail(r)
        PROVE  TypeOK'
    BY <1>0, <1>a DEF Fail, TypeOK, document, Phases
  <1>b. ASSUME NEW i \in 0 .. Total, NEW next \in 1 .. Total + 1, member \in Members,
               Construct(i, next), UNCHANGED <<document, reason>>,
               loc' \in [Members -> 0 .. Total]
        PROVE  TypeOK'
    <2>1. pos' \in 1 .. Total + 1 /\ phase' \in Phases
      BY <1>b, GoToType DEF Construct, Phases
    <2>2. member' \in 1 .. MemberCount + 1 /\ taken' \in [Members -> 0 .. Total]
      BY <1>b, TypeFacts DEF Construct, TypeOK, Members
    <2>3. phase' # "find"
      BY <1>b DEF Construct, GoTo
    <2>4. QED
      BY <1>0, <1>b, <2>1, <2>2, <2>3 DEF TypeOK, document
  <1>c. Searching => /\ pos \in 1 .. Total /\ pos + 1 \in 1 .. Total + 1
                     /\ member \in Members /\ RangeOf(pos) \in 0 .. Total
    BY TypeFacts DEF Searching, RangeOf, TypeOK
  <1>1. CASE EnterMember
    <2>1. CASE Fail("MissingMember")
      BY <1>a, <2>1 DEF Reasons
    <2>2. CASE phase' = "find" /\ UNCHANGED <<document, member, pos, loc, taken, reason>>
      BY <1>0, <1>1, <2>2, TypeFacts DEF EnterMember, TypeOK, document, Phases, Members
    <2>3. QED
      BY <1>1, <2>1, <2>2 DEF EnterMember
  <1>2. CASE SkipUnknownMember
    <2>1. pos' \in 1 .. Total + 1 /\ phase' \in Phases
      BY <1>2, <1>c, GoToType DEF SkipUnknownMember, Phases
    <2>2. QED
      BY <1>0, <1>2, <1>c, <2>1 DEF SkipUnknownMember, TypeOK, document
  <1>3. CASE RejectUnknownMember
    BY <1>3, <1>a DEF RejectUnknownMember, Reasons
  <1>4. CASE ParseInPlace
    <2>1. AfterValue(pos) \in 1 .. Total + 1
      BY <1>4, <1>c, TypeFacts DEF ParseInPlace, AfterValue, IsBrace
    <2>2. loc' \in [Members -> 0 .. Total]
      BY <1>4, <1>c DEF ParseInPlace, TypeOK
    <2>3. QED
      BY <1>4, <1>b, <1>c, <2>1, <2>2 DEF ParseInPlace
  <1>5. CASE RejectNull
    BY <1>5, <1>a DEF RejectNull, Reasons
  <1>6. CASE StoreForLater
    <2> DEFINE next == IF unchecked /\ Hit < MemberCount THEN NextQuote(pos + 1) ELSE pos + 1
    <2>1. next \in 1 .. Total + 1
      BY <1>6, <1>c, NextQuoteType DEF StoreForLater, TypeOK
    <2>2. pos' \in 1 .. Total + 1 /\ phase' \in Phases
      BY <1>6, <2>1, GoToType DEF StoreForLater, Phases
    <2>3. loc' \in [Members -> 0 .. Total]
      BY <1>6, <1>c DEF StoreForLater, TypeOK
    <2>4. QED
      BY <1>0, <1>6, <1>c, <2>2, <2>3 DEF StoreForLater, TypeOK, document
  <1>7. CASE ParseStored
    BY <1>7, <1>b DEF ParseStored, TypeOK
  <1>8. CASE ConstructEmpty
    BY <1>8, <1>b DEF ConstructEmpty, TypeOK
  <1>9. CASE RejectMissing
    BY <1>9, <1>a DEF RejectMissing, Reasons
  <1>10. CASE SkipRest
    <2>1. ClosingBrace(pos) + 1 \in 1 .. Total + 1
      BY TypeFacts DEF ClosingBrace
    <2>2. QED
      BY <1>0, <1>10, <2>1 DEF SkipRest, TypeOK, document, Phases
  <1>11. CASE CloseExact
    <2>1. IsBrace(pos) => pos + 1 \in 1 .. Total + 1
      BY TypeFacts DEF IsBrace
    <2>2. CASE Fail("UnknownMember")
      BY <1>a, <2>2 DEF Reasons
    <2>3. QED
      BY <1>0, <1>11, <2>1, <2>2 DEF CloseExact, TypeOK, document, Phases
  <1>12. CASE UNCHANGED vars
    BY <1>0, <1>12 DEF vars, TypeOK, document
  <1>13. QED
    BY <1>1, <1>2, <1>3, <1>4, <1>5, <1>6, <1>7, <1>8, <1>9, <1>10, <1>11, <1>12
       DEF Next, FindStep, Terminated

\* The parse state is well formed after every step, in both parse modes: the
\* cursor never points behind the buffer, every stored location and every
\* argument's origin is a cell of it.
THEOREM TypeCorrect == Spec => []TypeOK
  <1>1. Init => TypeOK
    <2> SUFFICES ASSUME Init
                 PROVE  TypeOK
      OBVIOUS
    <2>1. Total \in Nat
      BY CellFacts DEF Init
    <2>2. MemberCount \in Nat
      BY ConstantsAssumption DEF ConstantsAssumption
    <2>3. QED
      BY <2>1, <2>2 DEF Init, TypeOK, Phases, Reasons
  <1>2. TypeOK /\ [Next]_vars => TypeOK'
    BY TypeStep
  <1>3. QED
    BY <1>1, <1>2, PTL DEF Spec

-----------------------------------------------------------------------------
(* The inductive invariant.                                                *)

Running == phase \in {"member", "find"}

\* Where control is, the cursor is inside the object until the parse returns.
Control ==
  /\ phase = "astray" => ~AcceptedByMapping
  /\ phase # "done" => pos <= End
  /\ phase = "done" => pos = End + 1 /\ member = MemberCount + 1
  /\ phase = "failed" <=> reason # "none"

\* An argument that has been parsed was built from a value or an accepted null
\* of its name, or is nullable and was looked for up to the end of the object.
Consumed ==
  \A m \in Members : m < member =>
    IF taken[m] = 0
    THEN Nullable(m) /\ NoValue(m, End) /\ (Running => pos = End)
    ELSE /\ taken[m] \in Passed(m, pos)
         /\ taken[m] < End
         /\ CellAt(taken[m]).null => Nullable(m)

Pending == \A m \in Members : m >= member => taken[m] = 0

\* An exact mapping has let mapped members pass only.
MappedSoFar ==
  mapping.exact => \A i \in 1 .. End - 1 : i < pos => CellAt(i).name \in Members

IInv ==
  /\ TypeOK
  /\ Control
  /\ CacheIsOwn
  /\ Consumed
  /\ Pending
  /\ MappedSoFar
  /\ MissingIsMissing
  /\ UnknownIsUnknown

-----------------------------------------------------------------------------
(* Passing one cell.                                                       *)

LEMMA PassedNext ==
  ASSUME TypeOK, pos < End, NEW m \in Members
  PROVE  /\ CellAt(pos).name # m => (NoValue(m, pos) => NoValue(m, pos + 1))
         /\ CellAt(pos).name = m => /\ pos \in Passed(m, pos + 1)
                                    /\ CellAt(pos).null => NoValue(m, pos + 1)
         /\ Passed(m, pos) \subseteq Passed(m, pos + 1)
  <1>1. pos \in 1 .. End - 1 /\ IsMember(pos)
    BY TypeFacts
  <1>2. Passed(m, pos + 1) = Passed(m, pos) \cup (IF CellAt(pos).name = m THEN {pos} ELSE {})
    BY <1>1, TypeFacts DEF Passed
  <1>3. QED
    BY <1>2 DEF NoValue

\* A step that leaves the document alone leaves the cells alone.
LEMMA Frame ==
  ASSUME UNCHANGED document
  PROVE  /\ End' = End /\ Total' = Total
         /\ \A i : (IsMember(i) <=> IsMember(i)') /\ CellAt(i)' = CellAt(i)
         /\ IsBrace(pos)' <=> IsBrace(pos')
         /\ IsMember(pos)' <=> IsMember(pos')
         /\ CellAt(pos)' = CellAt(pos')
         /\ \A m : Nullable(m)' <=> Nullable(m)
         /\ \A m : NoValue(m, pos)' <=> NoValue(m, pos')
         /\ \A m : NoValue(m, End)' <=> NoValue(m, End)
         /\ \A m : Passed(m, pos)' = Passed(m, pos')
         /\ \A m : CellAt(loc[m])' = CellAt(loc'[m])
         /\ \A m : CellAt(taken[m])' = CellAt(taken'[m])
         /\ AcceptedByMapping' <=> AcceptedByMapping
  <1>1. unchecked' = unchecked /\ inner' = inner /\ outer' = outer /\ mapping' = mapping
    BY DEF document
  <1>2. End' = End /\ Total' = Total
    BY <1>1 DEF End, Total
  <1>3. QED
    BY <1>1, <1>2
       DEF IsMember, CellAt, IsBrace, Nullable, NoValue, Passed, End, Total, AcceptedByMapping

-----------------------------------------------------------------------------
(* The invariant is kept, one lemma for each kind of step.                 *)

LEMMA SearchFacts ==
  ASSUME HashesTellApart, IInv, Searching
  PROVE  /\ pos \in 1 .. End - 1
         /\ member \in Members
         /\ phase = "find"
         /\ CellAt(pos) = inner[pos]
         /\ CellAt(pos).name \in Names /\ CellAt(pos).null \in BOOLEAN
         /\ Hit = IF CellAt(pos).name \in member .. MemberCount
                  THEN CellAt(pos).name ELSE MemberCount + 1
  <1>1. pos \in 1 .. End - 1 /\ member \in Members /\ CellAt(pos) \in Cell
    BY TypeFacts DEF IInv, TypeOK, Control, Searching
  <1>2. CellAt(pos).name \in Names /\ CellAt(pos).null \in BOOLEAN
    BY <1>1 DEF Cell
  <1>3. QED
    BY <1>1, <1>2, TypeFacts, FindNameIsMember DEF IInv, Searching, Hit, Members

\* Looking past a cell keeps what is known of the arguments it is not for.
LEMMA PassOne ==
  ASSUME HashesTellApart, IInv, Searching, UNCHANGED document, pos' = pos + 1
  PROVE  /\ \A m \in Members :
              CellAt(pos).name # m =>
                (NoValue(m, pos) => NoValue(m, pos)')
         /\ \A m \in Members : m < member => taken[m] # 0
         /\ \A m \in Members : Passed(m, pos) \subseteq Passed(m, pos)'
         /\ CellAt(pos).name \in Members => MappedSoFar'
  <1>1. pos < End /\ TypeOK
    BY SearchFacts, TypeFacts DEF IInv
  <1>2. ASSUME NEW m \in Members, CellAt(pos).name # m
        PROVE  NoValue(m, pos) => NoValue(m, pos)'
    BY <1>1, <1>2, PassedNext, Frame
  <1>3. \A m \in Members : m < member => taken[m] # 0
    BY <1>1, SearchFacts DEF IInv, Consumed, Running
  <1>4. \A m \in Members : Passed(m, pos) \subseteq Passed(m, pos)'
    BY <1>1, PassedNext, Frame
  <1>5. ASSUME CellAt(pos).name \in Members
        PROVE  MappedSoFar'
    <2>1. End' = End /\ mapping' = mapping /\ \A i : CellAt(i)' = CellAt(i)
      BY Frame DEF document
    <2>2. MappedSoFar /\ pos \in Int
      BY <1>1, TypeFacts DEF IInv
    <2>3. ASSUME mapping.exact, NEW i \in 1 .. End - 1, i < pos + 1
          PROVE  CellAt(i).name \in Members
      BY <1>1, <1>5, <2>2, <2>3, TypeFacts DEF MappedSoFar
    <2>4. QED
      BY <2>1, <2>3 DEF MappedSoFar
  <1>6. QED
    BY <1>2, <1>3, <1>4, <1>5

LEMMA FailKeeps ==
  ASSUME IInv, NEW r \in Reasons \ {"none"}, Fail(r), pos <= End,
         MissingIsMissing', UnknownIsUnknown', TypeOK'
  PROVE  IInv'
  <1>1. UNCHANGED <<document, member, pos, loc, taken>> /\ phase' = "failed" /\ reason' = r
    BY DEF Fail
  <1>2. Control' /\ CacheIsOwn'
    BY <1>1, Frame DEF IInv, Control, CacheIsOwn
  <1>3. Consumed' /\ Pending' /\ MappedSoFar'
    BY <1>1, Frame DEF IInv, Consumed, Pending, MappedSoFar, Running, document
  <1>4. QED
    BY <1>2, <1>3 DEF IInv

\* An argument whose place in the document is settled.
LEMMA ConstructKeeps ==
  ASSUME IInv, TypeOK', UNCHANGED <<document, reason>>, reason = "none",
         member \in Members, NEW i, Construct(i, pos'), pos' <= End, pos <= pos',
         \A m \in Members : m < member /\ taken[m] = 0 => pos' = End,
         IF i = 0 THEN Nullable(member) /\ NoValue(member, End) /\ pos' = End
         ELSE i \in Passed(member, pos') /\ i < End
                /\ (CellAt(i).null => Nullable(member)),
         MappedSoFar',
         \A m \in Members : m > member =>
           IF loc'[m] = 0 THEN NoValue(m, pos')
           ELSE loc'[m] \in Passed(m, pos') /\ ~CellAt(loc'[m]).null
  PROVE  IInv'
  <1>1. /\ taken' = [taken EXCEPT ![member] = i] /\ member' = member + 1
        /\ phase' = "member" /\ UNCHANGED document /\ reason' = "none"
        /\ taken \in [Members -> 0 .. Total] /\ member \in Nat
        /\ pos \in Int /\ pos' \in Int /\ End \in Nat
    <2>1. pos' <= Total
      BY TypeFacts DEF IInv, TypeOK
    <2>2. QED
      BY <2>1, TypeFacts DEF Construct, GoTo, IInv, TypeOK, Members
  <1>2. Control'
    BY <1>1, Frame DEF Control
  <1>3. CacheIsOwn'
    <2>1. \A m \in Members : m >= member + 1 => m > member
      BY <1>1 DEF Members
    <2>2. QED
      BY <1>1, <2>1, Frame DEF CacheIsOwn
  <1>4. Consumed'
    <2>1. ASSUME NEW m \in Members, m < member
          PROVE  IF taken'[m] = 0
                 THEN Nullable(m) /\ NoValue(m, End) /\ pos' = End
                 ELSE /\ taken'[m] \in Passed(m, pos')
                      /\ taken'[m] < End
                      /\ CellAt(taken'[m]).null => Nullable(m)
      <3>1. taken'[m] = taken[m]
        BY <1>1, <2>1
      <3>2. Passed(m, pos) \subseteq Passed(m, pos')
        BY <1>1 DEF Passed
      <3>3. QED
        BY <2>1, <3>1, <3>2 DEF IInv, Consumed
    <2>2. IF taken'[member] = 0
          THEN Nullable(member) /\ NoValue(member, End) /\ pos' = End
          ELSE /\ taken'[member] \in Passed(member, pos')
               /\ taken'[member] < End
               /\ CellAt(taken'[member]).null => Nullable(member)
      BY <1>1
    <2>3. \A m \in Members : m < member + 1 => m < member \/ m = member
      BY <1>1 DEF Members
    <2>4. QED
      BY <1>1, <2>1, <2>2, <2>3, Frame DEF Consumed
  <1>5. Pending'
    BY <1>1 DEF IInv, Pending, Members
  <1>6. MissingIsMissing' /\ UnknownIsUnknown'
    BY <1>1 DEF MissingIsMissing, UnknownIsUnknown
  <1>7. QED
    BY <1>2, <1>3, <1>4, <1>5, <1>6 DEF IInv

-----------------------------------------------------------------------------
(* An unchecked parse of a complete object does what a checked one does.   *)

LEMMA InnerCells ==
  ASSUME TypeOK
  PROVE  /\ Len(inner) = End - 1 /\ End \in Nat
         /\ \A i \in 1 .. Len(inner) :
              CellAt(i) = inner[i] /\ IsMember(i) /\ inner[i].null \in BOOLEAN
  BY CellFacts, TypeFacts DEF TypeOK, End, Cell

LEMMA CompleteCells ==
  ASSUME TrustedInput, unchecked, TypeOK
  PROVE  /\ \A i \in 1 .. End - 1 : ~CellAt(i).null
         /\ \A i, j \in 1 .. End - 1 : CellAt(i).name = CellAt(j).name => i = j
         /\ \A m \in Members : \E i \in 1 .. End - 1 : CellAt(i).name = m
  <1>0. unchecked = TRUE /\ inner \in Documents[unchecked]
    BY DEF TypeOK
  <1>1. Complete(inner) /\ DOMAIN inner = 1 .. End - 1
    <2>1. Complete(inner)
      BY <1>0 DEF TrustedInput
    <2>2. outer \in Enclosing /\ unchecked \in BOOLEAN
      BY DEF TypeOK
    <2>3. DOMAIN inner = 1 .. End - 1
      BY <1>0, <2>2, CellFacts DEF End
    <2>4. QED
      BY <2>1, <2>3
  <1>2. \A i \in 1 .. End - 1 : CellAt(i) = inner[i]
    BY TypeFacts
  <1>3. QED
    BY <1>1, <1>2 DEF Complete

LEMMA NullsOnlyChecked ==
  ASSUME TrustedInput, HashesTellApart, IInv, Searching
  PROVE  unchecked => ~CellAt(pos).null
  BY CompleteCells, SearchFacts DEF IInv

\* The member looked for is further on, so that a member is next.
LEMMA QuoteIsNext ==
  ASSUME TrustedInput, HashesTellApart, unchecked, IInv, Searching, Hit > member
  PROVE  NextQuote(pos + 1) = pos + 1
  <1>0. TypeOK /\ pos \in 1 .. End - 1 /\ member \in Members /\ phase = "find" /\ loc[member] = 0
    BY SearchFacts DEF IInv, Searching
  <1>1. PICK i \in 1 .. End - 1 : CellAt(i).name = member
    BY <1>0, CompleteCells
  <1>2. NoValue(member, pos)
    BY <1>0, TypeFacts DEF IInv, CacheIsOwn, Members
  <1>3. Passed(member, pos) = {}
    <2>1. \A j \in Passed(member, pos) : j \in 1 .. End - 1
      BY <1>0, TypeFacts DEF Passed
    <2>2. QED
      BY <1>0, <1>2, <2>1, CompleteCells DEF NoValue
  <1>4. i # pos
    <2>1. CellAt(pos).name # member
      BY <1>0, SearchFacts, TypeFacts DEF Members
    <2>2. QED
      BY <1>1, <2>1
  <1>5. i > pos
    BY <1>0, <1>1, <1>3, <1>4, TypeFacts DEF Passed
  <1>6. pos + 1 \in 1 .. End - 1 /\ pos + 1 \in pos + 1 .. Total
    BY <1>0, <1>1, <1>5, TypeFacts
  <1>7. IsMember(pos + 1)
    BY <1>0, <1>6, TypeFacts
  <1>8. \A j \in pos + 1 .. Total : IsMember(j) /\ (\A k \in pos + 1 .. j - 1 : ~IsMember(k)) => j = pos + 1
    BY <1>0, <1>6, <1>7, TypeFacts
  <1>9. QED
    BY <1>6, <1>7, <1>8, <1>0, TypeFacts DEF NextQuote

\* Every member of the object has been passed when the last argument has been
\* parsed, if all of them are mapped.
LEMMA NothingLeftOver ==
  ASSUME TrustedInput, unchecked, IInv, phase = "member", member = MemberCount + 1, AcceptedByMapping,
         mapping.exact
  PROVE  IsBrace(pos)
  <1>0. TypeOK /\ pos \in 1 .. End
    BY TypeFacts DEF IInv, Control
  <1>1. SUFFICES ASSUME pos # End PROVE FALSE
    BY DEF IsBrace
  <1>2. pos \in 1 .. End - 1 /\ CellAt(pos).name \in Members
    BY <1>0, <1>1, TypeFacts, InnerCells DEF AcceptedByMapping
  <1>3. CellAt(pos).name < member
    BY <1>0, <1>2, TypeFacts DEF Members
  <1>4. taken[CellAt(pos).name] \in Passed(CellAt(pos).name, pos)
    BY <1>0, <1>2, <1>3, TypeFacts DEF IInv, Consumed, Running
  <1>5. PICK j \in 1 .. pos - 1 : CellAt(j).name = CellAt(pos).name
    BY <1>4 DEF Passed
  <1>6. j \in 1 .. End - 1 /\ j # pos
    BY <1>0, <1>2, <1>5, TypeFacts
  <1>7. QED
    BY <1>0, <1>2, <1>5, <1>6, CompleteCells

-----------------------------------------------------------------------------
LEMMA InvariantStep ==
  ASSUME TrustedInput, HashesTellApart, IInv, [Next]_vars
  PROVE  IInv'
  <1>0. TypeOK /\ TypeOK'
    BY TypeStep DEF IInv
  <1>a. phase \in {"member", "find"} => reason = "none" /\ pos \in 1 .. End
    BY <1>0, TypeFacts DEF IInv, Control
  \* The end of the object is reached without the argument being parsed.
  <1>b. ASSUME phase \in {"member", "find"}, member \in Members, loc[member] = 0,
               IsBrace(pos), ~Nullable(member), Fail("MissingMember")
        PROVE  IInv'
    <2>1. NoValue(member, pos)
      BY <1>b, <1>0, TypeFacts DEF IInv, CacheIsOwn
    <2>2. MissingIsMissing' /\ UnknownIsUnknown'
      BY <1>b, <2>1, Frame DEF Fail, MissingIsMissing, UnknownIsUnknown
    <2>3. QED
      BY <1>0, <1>a, <1>b, <2>2, FailKeeps DEF Reasons
  <1>1. CASE EnterMember
    <2>1. CASE Fail("MissingMember") /\ ~Nullable(member) /\ loc[member] = 0 /\ IsBrace(pos)
      BY <1>0, <1>1, <1>b, <2>1, TypeFacts DEF EnterMember, Members
    <2>2. CASE phase' = "find" /\ UNCHANGED <<document, member, pos, loc, taken, reason>>
      <3>1. phase = "member" /\ phase # "done"
        BY <1>1 DEF EnterMember
      <3>2. Control' /\ CacheIsOwn'
        BY <2>2, <3>1, Frame DEF IInv, Control, CacheIsOwn
      <3>3. Consumed' /\ Pending' /\ MappedSoFar' /\ MissingIsMissing' /\ UnknownIsUnknown'
        BY <1>a, <2>2, <3>1, Frame
           DEF IInv, Consumed, Pending, MappedSoFar, MissingIsMissing, UnknownIsUnknown,
               Running, document
      <3>4. QED
        BY <1>0, <3>2, <3>3 DEF IInv
    <2>3. QED
      BY <1>1, <2>1, <2>2 DEF EnterMember
  <1>2. CASE SkipUnknownMember
    <2>1. /\ UNCHANGED document /\ Searching /\ pos' = pos + 1
          /\ UNCHANGED <<member, loc, taken, reason>> /\ phase' = "find"
          /\ mapping.exact = FALSE
      <3>1. pos + 1 <= Total
        BY <1>0, <1>2, SearchFacts, TypeFacts DEF SkipUnknownMember
      <3>2. QED
        BY <1>0, <1>2, <3>1, TypeFacts DEF SkipUnknownMember, GoTo, Mapping
    <2>2. \A m \in Members : m >= member => CellAt(pos).name # m
      BY <1>0, <1>2, <2>1, SearchFacts, TypeFacts DEF SkipUnknownMember, Members
    <2>3. Control'
      BY <1>0, <1>a, <2>1, SearchFacts, TypeFacts, Frame DEF Control
    <2>4. CacheIsOwn'
      BY <1>0, <2>1, <2>2, SearchFacts, PassOne, Frame DEF IInv, CacheIsOwn
    <2>5. Consumed' /\ Pending'
      BY <2>1, PassOne, Frame DEF IInv, Consumed, Pending
    <2>6. MappedSoFar' /\ MissingIsMissing' /\ UnknownIsUnknown'
      BY <1>a, <2>1, SearchFacts
         DEF MappedSoFar, MissingIsMissing, UnknownIsUnknown, document
    <2>7. QED
      BY <1>0, <2>3, <2>4, <2>5, <2>6 DEF IInv
  <1>3. CASE RejectUnknownMember
    <2> DEFINE r == IF unchecked THEN "NumberOutOfRange" ELSE "UnknownMember"
    <2>1. /\ Fail(r) /\ Searching /\ mapping.exact /\ Hit > MemberCount
          /\ r \in {"NumberOutOfRange", "UnknownMember"}
      BY <1>3 DEF RejectUnknownMember
    <2> HIDE DEF r
    <2>2. IsMember(pos) /\ pos \in 1 .. End - 1
      BY <2>1, SearchFacts DEF Searching
    <2>3. CellAt(pos).name \notin Members \/ Passed(CellAt(pos).name, pos) # {}
      <3>1. ASSUME CellAt(pos).name \in Members
            PROVE  Passed(CellAt(pos).name, pos) # {}
        <4>1. CellAt(pos).name < member
          BY <1>0, <2>1, <3>1, SearchFacts, TypeFacts DEF Members
        <4>2. taken[CellAt(pos).name] # 0
          BY <2>1, <2>2, <3>1, <4>1, <1>0, TypeFacts DEF IInv, Consumed, Running, Searching
        <4>3. QED
          BY <3>1, <4>1, <4>2 DEF IInv, Consumed
      <3>2. QED
        BY <3>1
    <2>4. UNCHANGED document /\ pos' = pos /\ reason' = r
      BY <2>1 DEF Fail
    <2>5. MissingIsMissing' /\ UnknownIsUnknown'
      <3>1. MissingIsMissing'
        BY <2>1, <2>4 DEF MissingIsMissing
      <3>2. CellAt(pos)' = CellAt(pos) /\ Passed(CellAt(pos).name, pos)' = Passed(CellAt(pos).name, pos)
        BY <2>4 DEF Passed, CellAt, IsMember, End, Total, document
      <3>3. UnknownIsUnknown'
        BY <2>1, <2>2, <2>3, <2>4, <3>2, Frame DEF UnknownIsUnknown, document
      <3>4. QED
        BY <3>1, <3>3
    <2>6. QED
      BY <1>0, <1>a, <2>1, <2>5, FailKeeps, SearchFacts DEF Reasons
  <1>4. CASE ParseInPlace
    <2>1. /\ Searching /\ Hit = member /\ UNCHANGED <<document, reason>>
          /\ CellAt(pos).null => Nullable(member)
          /\ loc' = [loc EXCEPT ![member] = pos]
          /\ Construct(pos, pos')
          /\ pos' = pos + 1
      <3>1. Searching /\ AfterValue(pos) = pos + 1
        BY <1>4, NullsOnlyChecked, SearchFacts DEF ParseInPlace, AfterValue
      <3>2. QED
        BY <1>4, <3>1 DEF ParseInPlace, Construct, GoTo
    <2>2. CellAt(pos).name = member /\ pos \in 1 .. End - 1 /\ member \in Members
      BY <1>0, <2>1, SearchFacts, TypeFacts DEF Members
    <2>3. pos \in Passed(member, pos') /\ pos < End /\ pos' <= End
      BY <1>0, <2>1, <2>2, PassedNext, TypeFacts 
    <2>4. \A m \in Members : m > member =>
            IF loc'[m] = 0 THEN NoValue(m, pos')
            ELSE loc'[m] \in Passed(m, pos') /\ ~CellAt(loc'[m]).null
      <3>1. ASSUME NEW m \in Members, m > member
            PROVE  loc'[m] = loc[m] /\ m # member
        BY <1>0, <2>1, <2>2, <3>1, TypeFacts DEF TypeOK, Members
      <3>2. ASSUME NEW m \in Members, m > member
            PROVE  IF loc[m] = 0 THEN NoValue(m, pos)
                   ELSE loc[m] \in Passed(m, pos) /\ ~CellAt(loc[m]).null
        BY <1>0, <2>1, <2>2, <3>2, SearchFacts, TypeFacts
           DEF IInv, CacheIsOwn, Members
      <3>3. QED
        BY <1>0, <2>1, <2>2, <3>1, <3>2, PassedNext, TypeFacts
    <2>5. reason = "none"
      BY <1>a, <2>1, SearchFacts
    <2>6. \A m \in Members : m < member => taken[m] # 0
      BY <2>1, PassOne
    <2>7. MappedSoFar'
      BY <2>1, <2>2, PassOne
    <2>8. pos <= pos' /\ pos # 0
      BY <2>1, <2>2, <1>0, TypeFacts
    <2>9. QED
      BY <1>0, <2>1, <2>2, <2>3, <2>4, <2>5, <2>6, <2>7, <2>8, ConstructKeeps
  <1>5. CASE RejectNull
    <2>1. /\ Fail("InvalidValue") /\ Searching /\ Hit = member
          /\ CellAt(pos).null /\ ~Nullable(member) /\ IsMember(pos)
      BY <1>5 DEF RejectNull, Searching
    <2>2. member \in Members /\ CellAt(pos).name = member /\ pos <= End
      BY <1>0, <2>1, SearchFacts, TypeFacts DEF Members
    <2>3. MissingIsMissing' /\ UnknownIsUnknown'
      BY <2>1, <2>2, Frame DEF Fail, MissingIsMissing, UnknownIsUnknown
    <2>4. QED
      BY <1>0, <2>1, <2>2, <2>3, FailKeeps DEF Reasons
  <1>6. CASE StoreForLater
    <2>1. /\ UNCHANGED document /\ Searching /\ pos' = pos + 1 /\ phase' = "find"
          /\ UNCHANGED <<member, taken, reason>>
          /\ Hit \in member + 1 .. MemberCount
          /\ loc' = [loc EXCEPT ![Hit] = RangeOf(pos)]
      <3>1. pos + 1 <= Total
        BY <1>0, <1>6, SearchFacts, TypeFacts DEF StoreForLater
      <3>2. Searching /\ Hit \in member + 1 .. MemberCount /\ Hit > member
        BY <1>0, <1>6, SearchFacts, TypeFacts DEF StoreForLater, Members
      <3>3. (IF unchecked /\ Hit < MemberCount THEN NextQuote(pos + 1) ELSE pos + 1) = pos + 1
        <4>1. CASE unchecked
          BY <3>2, <4>1, QuoteIsNext
        <4>2. CASE ~unchecked
          BY <4>2
        <4>3. QED
          BY <4>1, <4>2
      <3>4. QED
        BY <1>6, <3>1, <3>3 DEF StoreForLater, GoTo
    <2>2. Hit = CellAt(pos).name /\ Hit \in Members /\ pos \in 1 .. End - 1 /\ member \in Members
      BY <1>0, <2>1, SearchFacts, TypeFacts DEF Members
    <2>3. Control'
      BY <1>0, <1>a, <2>1, SearchFacts, TypeFacts, Frame DEF Control
    <2>4. CacheIsOwn'
      <3>1. ASSUME NEW m \in Members, m >= member
            PROVE  IF loc'[m] = 0 THEN NoValue(m, pos')
                   ELSE loc'[m] \in Passed(m, pos') /\ ~CellAt(loc'[m]).null
        <4>1. CASE m = Hit
          <5>1. loc'[m] = RangeOf(pos) /\ pos # 0
            BY <1>0, <2>1, <2>2, <4>1 DEF TypeOK
          <5>2. pos \in Passed(m, pos') /\ (CellAt(pos).null => NoValue(m, pos'))
            BY <1>0, <2>1, <2>2, <4>1, PassedNext, TypeFacts
          <5>3. QED
            BY <5>1, <5>2 DEF RangeOf
        <4>2. CASE m # Hit
          <5>1. loc'[m] = loc[m] /\ CellAt(pos).name # m
            BY <1>0, <2>1, <2>2, <4>2 DEF TypeOK
          <5>2. IF loc[m] = 0 THEN NoValue(m, pos)
                ELSE loc[m] \in Passed(m, pos) /\ ~CellAt(loc[m]).null
            BY <2>1, <3>1, SearchFacts DEF IInv, CacheIsOwn
          <5>3. QED
            BY <1>0, <2>1, <2>2, <5>1, <5>2, PassedNext, TypeFacts
        <4>3. QED
          BY <4>1, <4>2
      <3>2. QED
        BY <2>1, <3>1, Frame DEF CacheIsOwn
    <2>5. Consumed' /\ Pending'
      BY <2>1, PassOne, Frame DEF IInv, Consumed, Pending
    <2>6. MappedSoFar'
      BY <2>1, <2>2, PassOne
    <2>7. MissingIsMissing' /\ UnknownIsUnknown'
      BY <1>a, <2>1, SearchFacts DEF MissingIsMissing, UnknownIsUnknown
    <2>8. QED
      BY <1>0, <2>3, <2>4, <2>5, <2>6, <2>7 DEF IInv
  <1>7. CASE ParseStored
    <2>1. /\ phase = "find" /\ loc[member] # 0 /\ member \in Members
          /\ Construct(loc[member], pos') /\ pos' = pos
          /\ UNCHANGED <<document, loc, reason>>
      BY <1>0, <1>7 DEF ParseStored, Construct, GoTo, TypeOK
    <2>2. loc[member] \in Passed(member, pos) /\ ~CellAt(loc[member]).null
      BY <1>0, <2>1, TypeFacts DEF IInv, CacheIsOwn
    <2>3. loc[member] \in Passed(member, pos') /\ loc[member] < End /\ pos' <= End /\ pos <= pos'
      BY <1>0, <1>a, <2>1, <2>2, TypeFacts DEF Passed
    <2>4. \A m \in Members : m > member =>
            IF loc'[m] = 0 THEN NoValue(m, pos')
            ELSE loc'[m] \in Passed(m, pos') /\ ~CellAt(loc'[m]).null
      BY <1>0, <2>1, TypeFacts DEF IInv, CacheIsOwn, Members
    <2>5. \A m \in Members : m < member /\ taken[m] = 0 => pos' = End
      BY <2>1 DEF IInv, Consumed, Running
    <2>6. MappedSoFar' /\ reason = "none"
      BY <1>a, <2>1, Frame DEF IInv, MappedSoFar, document
    <2>7. QED
      BY <1>0, <2>1, <2>2, <2>3, <2>4, <2>5, <2>6, ConstructKeeps
  <1>8. CASE ConstructEmpty
    <2>1. /\ phase = "find" /\ loc[member] = 0 /\ member \in Members
          /\ IsBrace(pos) /\ Nullable(member)
          /\ Construct(0, pos') /\ pos' = pos
          /\ UNCHANGED <<document, loc, reason>>
      BY <1>0, <1>8 DEF ConstructEmpty, Construct, GoTo, TypeOK
    <2>2. NoValue(member, pos)
      BY <1>0, <2>1, TypeFacts DEF IInv, CacheIsOwn
    <2>3. pos = End
      BY <1>0, <1>a, <2>1, TypeFacts DEF IsBrace
    <2>4. \A m \in Members : m > member =>
            IF loc'[m] = 0 THEN NoValue(m, pos')
            ELSE loc'[m] \in Passed(m, pos') /\ ~CellAt(loc'[m]).null
      BY <1>0, <2>1, TypeFacts DEF IInv, CacheIsOwn, Members
    <2>5. MappedSoFar' /\ reason = "none"
      BY <1>a, <2>1, Frame DEF IInv, MappedSoFar, document
    <2>6. pos' = End /\ pos' <= End /\ pos <= pos'
      BY <1>0, <2>1, <2>3, TypeFacts
    <2>7. QED
      BY <1>0, <2>1, <2>2, <2>3, <2>4, <2>5, <2>6, ConstructKeeps
  <1>9. CASE RejectMissing
    BY <1>0, <1>9, <1>b DEF RejectMissing, TypeOK
  \* The parse returns.
  <1>c. ASSUME UNCHANGED <<document, member, loc, taken, reason>>, phase = "member",
               member = MemberCount + 1, pos' = End + 1, phase' = "done",
               mapping.exact => pos = End
        PROVE  IInv'
    <2>1. \A m \in Members : m < member /\ ~(m >= member)
      BY <1>0, <1>c, TypeFacts DEF Members
    <2>2. Control' /\ CacheIsOwn'
      BY <1>a, <1>c, Frame DEF Control, CacheIsOwn
    <2>3. Consumed' /\ Pending'
      <3>1. \A m \in Members : Passed(m, pos) \subseteq Passed(m, pos')
        BY <1>0, <1>a, <1>c, TypeFacts DEF Passed
      <3>2. ~Running'
        BY <1>c DEF Running
      <3>3. QED
        BY <1>c, <2>1, <3>1, <3>2, Frame DEF IInv, Consumed, Pending
    <2>4. MappedSoFar'
      <3>1. mapping.exact => \A i \in 1 .. End - 1 : i < pos
        BY <1>0, <1>c, TypeFacts
      <3>2. QED
        BY <1>c, <3>1, Frame DEF IInv, MappedSoFar, document
    <2>5. MissingIsMissing' /\ UnknownIsUnknown'
      BY <1>a, <1>c DEF MissingIsMissing, UnknownIsUnknown
    <2>6. QED
      BY <1>0, <2>2, <2>3, <2>4, <2>5 DEF IInv
  <1>10. CASE SkipRest
    BY <1>0, <1>a, <1>c, <1>10, TypeFacts DEF SkipRest, ClosingBrace
  <1>11. CASE CloseExact
    <2>1. CASE IsBrace(pos) /\ pos' = pos + 1 /\ phase' = "done"
               /\ UNCHANGED <<document, member, loc, taken, reason>>
      <3>1. pos = End
        BY <1>0, <1>a, <1>11, <2>1, TypeFacts DEF CloseExact, IsBrace
      <3>2. QED
        BY <1>c, <1>11, <2>1, <3>1 DEF CloseExact
    <2>2. CASE ~IsBrace(pos) /\ Fail("UnknownMember")
      <3>1. pos \in 1 .. End - 1 /\ IsMember(pos) /\ CellAt(pos) \in Cell
        BY <1>0, <1>a, <1>11, <2>2, TypeFacts DEF CloseExact
      <3>2. CellAt(pos).name \in Members => Passed(CellAt(pos).name, pos) # {}
        <4>1. SUFFICES ASSUME CellAt(pos).name \in Members
                       PROVE  Passed(CellAt(pos).name, pos) # {}
          OBVIOUS
        <4>2. CellAt(pos).name < member
          BY <1>0, <1>11, <4>1, TypeFacts DEF CloseExact, Members
        <4>3. taken[CellAt(pos).name] # 0
          BY <1>0, <1>11, <3>1, <4>1, <4>2, TypeFacts DEF IInv, Consumed, Running, CloseExact
        <4>4. QED
          BY <4>1, <4>2, <4>3 DEF IInv, Consumed
      <3>3. UNCHANGED document /\ pos' = pos /\ reason' = "UnknownMember"
        BY <2>2 DEF Fail
      <3>4. MissingIsMissing'
        BY <3>3 DEF MissingIsMissing
      <3>5. CellAt(pos)' = CellAt(pos) /\ Passed(CellAt(pos).name, pos)' = Passed(CellAt(pos).name, pos)
        BY <3>3 DEF Passed, CellAt, IsMember, End, Total, document
      <3>6. UnknownIsUnknown'
        BY <1>11, <3>1, <3>2, <3>3, <3>5, Frame DEF UnknownIsUnknown, CloseExact, document
      <3>7. QED
        BY <1>0, <1>a, <1>11, <2>2, <3>4, <3>6, FailKeeps DEF Reasons, CloseExact
    <2>3. CASE ~IsBrace(pos) /\ unchecked /\ phase' = "astray"
               /\ UNCHANGED <<document, member, pos, loc, taken, reason>>
      <3>1. ~AcceptedByMapping'
        <4>1. ~AcceptedByMapping
          BY <1>11, <2>3, NothingLeftOver DEF CloseExact
        <4>2. QED
          BY <2>3, <4>1 DEF AcceptedByMapping, document
      <3>2. Control' /\ CacheIsOwn'
        BY <1>a, <1>11, <2>3, <3>1, Frame DEF CloseExact, Control, CacheIsOwn
      <3>3. Consumed' /\ Pending' /\ MappedSoFar'
        BY <2>3, Frame DEF IInv, Consumed, Pending, MappedSoFar, Running, document
      <3>4. MissingIsMissing' /\ UnknownIsUnknown'
        BY <1>a, <1>11, <2>3 DEF CloseExact, MissingIsMissing, UnknownIsUnknown
      <3>5. QED
        BY <1>0, <3>2, <3>3, <3>4 DEF IInv
    <2>4. QED
      BY <1>11, <2>1, <2>2, <2>3 DEF CloseExact
  <1>12. CASE UNCHANGED vars
    <2>1. /\ UNCHANGED <<member, pos, loc, taken, phase, reason>> /\ UNCHANGED document
      BY <1>12 DEF vars, document
    <2>2. Control' /\ CacheIsOwn' /\ Consumed' /\ Pending'
      BY <2>1, Frame DEF IInv, Control, CacheIsOwn, Consumed, Pending, Running
    <2>3. MappedSoFar' /\ MissingIsMissing'
      BY <2>1, Frame DEF IInv, MappedSoFar, MissingIsMissing, document
    <2>4. UnknownIsUnknown'
      BY <1>12 DEF vars, IInv, UnknownIsUnknown, Passed, IsMember, CellAt, End, Total
    <2>5. QED
      BY <1>0, <2>2, <2>3, <2>4 DEF IInv
  <1>13. QED
    BY <1>1, <1>2, <1>3, <1>4, <1>5, <1>6, <1>7, <1>8, <1>9, <1>10, <1>11, <1>12
       DEF Next, FindStep, Terminated

LEMMA InvariantInit == Init => IInv
  <1> SUFFICES ASSUME Init
               PROVE  IInv
    OBVIOUS
  <1>1. TypeOK
    <2>1. Total \in Nat
      BY CellFacts DEF Init
    <2>2. MemberCount \in Nat
      BY ConstantsAssumption DEF ConstantsAssumption
    <2>3. QED
      BY <2>1, <2>2 DEF Init, TypeOK, Phases, Reasons
  <1>2. pos = 1 /\ member = 1 /\ phase = "member" /\ reason = "none"
        /\ \A m \in Members : loc[m] = 0 /\ taken[m] = 0 /\ ~(m < 1)
    BY DEF Init, Members
  <1>3. Control
    BY <1>1, <1>2, TypeFacts DEF Control
  <1>4. CacheIsOwn
    BY <1>2 DEF CacheIsOwn, NoValue, Passed
  <1>5. Consumed /\ Pending
    BY <1>2 DEF Consumed, Pending
  <1>6. MappedSoFar /\ MissingIsMissing /\ UnknownIsUnknown
    BY <1>2 DEF MappedSoFar, MissingIsMissing, UnknownIsUnknown
  <1>7. QED
    BY <1>1, <1>3, <1>4, <1>5, <1>6 DEF IInv

LEMMA InvariantHolds ==
  ASSUME TrustedInput, HashesTellApart
  PROVE  Spec => []IInv
  <1>1. IInv /\ [Next]_vars => IInv'
    BY InvariantStep
  <1>2. QED
    BY <1>1, InvariantInit, PTL DEF Spec

-----------------------------------------------------------------------------
(* What a parse guarantees.                                                *)

\* A stored location is that of a value of its name, and none is overlooked,
\* whatever the order of the document's members and of the constructor's arguments.
THEOREM CacheCorrect ==
  ASSUME TrustedInput, HashesTellApart
  PROVE  Spec => []CacheIsOwn
  <1>1. IInv => CacheIsOwn
    BY DEF IInv
  <1>2. QED
    BY <1>1, InvariantHolds, PTL

\* A parse that returns has consumed exactly its object, also where the bounds are
\* not checked (class_cleanup_now).
THEOREM ClassBoundary ==
  ASSUME TrustedInput, HashesTellApart
  PROVE  Spec => []ConsumesOwnClass
  <1>1. IInv => ConsumesOwnClass
    BY DEF IInv, Control, ConsumesOwnClass
  <1>2. QED
    BY <1>1, InvariantHolds, PTL

\* Until it returns it never passes its own closing brace, whatever is looked for,
\* also where nothing checks that the next quote is one of its own (find_class_member).
THEOREM NeverAstray ==
  ASSUME TrustedInput, HashesTellApart
  PROVE  Spec => []StaysInsideClass
  <1>1. IInv => StaysInsideClass
    BY DEF IInv, Control, StaysInsideClass, ConsumesOwnClass
  <1>2. QED
    BY <1>1, InvariantHolds, PTL

\* Every argument is built from a member of its own name.
THEOREM ArgumentOrigin ==
  ASSUME TrustedInput, HashesTellApart
  PROVE  Spec => []ArgumentsAreOwnMembers
  <1>1. IInv => ArgumentsAreOwnMembers
    <2> SUFFICES ASSUME IInv, NEW m \in Members, taken[m] # 0
                 PROVE  taken[m] <= Len(inner) /\ inner[taken[m]].name = m
      BY DEF ArgumentsAreOwnMembers
    <2>1. m < member
      BY TypeFacts DEF IInv, Pending, Members
    <2>2. taken[m] \in Passed(m, pos) /\ taken[m] < End
      BY <2>1 DEF IInv, Consumed
    <2>3. taken[m] \in 1 .. End - 1
      BY <2>2, TypeFacts DEF IInv, Passed
    <2>4. Len(inner) = End - 1
      BY CellFacts DEF IInv, TypeOK, End
    <2>5. QED
      BY <2>2, <2>3, <2>4, TypeFacts DEF IInv, Passed
  <1>2. QED
    BY <1>1, InvariantHolds, PTL

\* An exception names a reason that is there.
THEOREM FailureReasons ==
  ASSUME TrustedInput, HashesTellApart
  PROVE  Spec => []FailuresHaveReasons
  <1>1. IInv => FailuresHaveReasons
    BY DEF IInv, FailuresHaveReasons
  <1>2. QED
    BY <1>1, InvariantHolds, PTL

\* An exact mapping accepts an object only after it saw every member of it.
THEOREM ExactMapping ==
  ASSUME TrustedInput, HashesTellApart
  PROVE  Spec => []ExactIsExact
  <1>1. IInv => ExactIsExact
    <2> SUFFICES ASSUME IInv, phase = "done", mapping.exact, NEW i \in 1 .. Len(inner)
                 PROVE  inner[i].name \in Members
      BY DEF ExactIsExact, AcceptedByMapping
    <2>1. pos = End + 1 /\ Len(inner) = End - 1 /\ End \in Nat
      BY CellFacts DEF IInv, Control, TypeOK, End
    <2>2. QED
      BY <2>1, TypeFacts DEF IInv, MappedSoFar
  <1>2. QED
    BY <1>1, InvariantHolds, PTL

-----------------------------------------------------------------------------
(* The parser implements ClassLookup.                                      *)

\* The names that NoValue finds no value of are absent in the sense of ClassLookup.
LEMMA NoValueIsAbsent ==
  ASSUME TypeOK, NEW m \in Members, NoValue(m, End)
  PROVE  Lookup!Absent(m)
  BY InnerCells DEF Lookup!Absent, Lookup!Named, NoValue, Passed

\* The arguments of a parse that returns are those ClassLookup allows.
LEMMA DoneAllowed ==
  ASSUME IInv, phase = "done"
  PROVE  /\ Value \in [Members -> 0 .. Len(inner)]
         /\ \A m \in Members : Value[m] \in Lookup!Choices(m)
         /\ ~Lookup!MustFail
  <1>1. TypeOK /\ pos = End + 1 /\ member = MemberCount + 1
    BY DEF IInv, Control
  <1>2. ASSUME NEW m \in Members
        PROVE  Value[m] \in Lookup!Choices(m) /\ Value[m] \in 0 .. Len(inner)
    <2>1. m < member
      BY <1>1, TypeFacts DEF Members
    <2>2. CASE taken[m] = 0
      <3>1. Nullable(m) /\ NoValue(m, End)
        BY <2>1, <2>2 DEF IInv, Consumed
      <3>2. Lookup!Absent(m) /\ Value[m] = 0
        BY <1>1, <2>2, <3>1, NoValueIsAbsent DEF Value
      <3>3. QED
        BY <1>1, <3>1, <3>2, InnerCells DEF Lookup!Choices, Nullable
    <2>3. CASE taken[m] # 0
      <3>1. taken[m] \in 1 .. Len(inner) /\ inner[taken[m]].name = m
            /\ (inner[taken[m]].null => Nullable(m))
        BY <1>1, <2>1, <2>3, InnerCells DEF IInv, Consumed, Passed
      <3>2. Value[m] = IF inner[taken[m]].null THEN 0 ELSE taken[m]
        BY <1>1, <2>3, <3>1, InnerCells DEF Value, RangeOf
      <3>3. QED
        BY <1>1, <3>1, <3>2, InnerCells
           DEF Lookup!Choices, Lookup!Valued, Lookup!Named, Lookup!Absent, Nullable
    <2>4. QED
      BY <2>2, <2>3
  <1>3. mapping.exact => \A i \in 1 .. Len(inner) : inner[i].name \in Members
    BY <1>1, InnerCells DEF IInv, MappedSoFar
  <1>4. Value \in [Members -> 0 .. Len(inner)]
    BY <1>2 DEF Value
  <1>5. QED
    BY <1>2, <1>3, <1>4 DEF Lookup!MustFail, Lookup!Members, Members

\* A parse fails only where ClassLookup lets it.
LEMMA FailureAllowed ==
  ASSUME IInv, phase = "failed"
  PROVE  Lookup!MayFail
  <1>1. TypeOK /\ reason \in Reasons \ {"none"} /\ pos \in 1 .. End
    BY TypeFacts DEF IInv, TypeOK, Control
  <1>2. Members = Lookup!Members
    BY DEF Members, Lookup!Members
  <1>3. CASE reason = "MissingMember"
    <2>1. member \in Members /\ ~Nullable(member) /\ NoValue(member, pos) /\ IsBrace(pos)
      BY <1>3 DEF IInv, MissingIsMissing
    <2>2. pos = End
      BY <1>1, <2>1, TypeFacts
    <2>3. Lookup!Absent(member)
      BY <1>1, <2>1, <2>2, NoValueIsAbsent
    <2>4. QED
      BY <1>2, <2>1, <2>3 DEF Lookup!MayFail, Nullable
  <1>4. CASE reason = "InvalidValue"
    <2>1. member \in Members /\ ~Nullable(member) /\ IsMember(pos)
          /\ CellAt(pos).name = member /\ CellAt(pos).null
      BY <1>4 DEF IInv, MissingIsMissing
    <2>2. pos \in 1 .. Len(inner)
      BY <1>1, <2>1, TypeFacts, InnerCells
    <2>3. Lookup!Absent(member)
      BY <1>1, <2>1, <2>2, InnerCells DEF Lookup!Absent, Lookup!Named
    <2>4. QED
      BY <1>2, <2>1, <2>3 DEF Lookup!MayFail, Nullable
  <1>5. CASE reason \in {"UnknownMember", "NumberOutOfRange"}
    <2>1. mapping.exact /\ IsMember(pos)
          /\ (CellAt(pos).name \notin Members \/ Passed(CellAt(pos).name, pos) # {})
      BY <1>5 DEF IInv, UnknownIsUnknown
    <2>2. pos \in 1 .. Len(inner)
      BY <1>1, <2>1, TypeFacts, InnerCells
    <2>3. CASE CellAt(pos).name \notin Members
      BY <1>1, <1>2, <2>1, <2>2, <2>3, InnerCells DEF Lookup!MayFail
    <2>4. CASE Passed(CellAt(pos).name, pos) # {}
      <3>1. PICK j \in 1 .. pos - 1 : CellAt(j).name = CellAt(pos).name
        BY <2>4 DEF Passed
      <3>2. inner[j].name = inner[pos].name
        BY <1>1, <2>2, <3>1, InnerCells
      <3>3. QED
        BY <2>1, <2>2, <3>2 DEF Lookup!MayFail
    <2>5. QED
      BY <2>1, <2>3, <2>4
  <1>6. QED
    BY <1>1, <1>3, <1>4, <1>5 DEF Reasons

\* A step of a parse that has not returned leaves the document alone.
LEMMA DocumentKept ==
  ASSUME [Next]_vars
  PROVE  UNCHANGED vars \/ (Running /\ UNCHANGED document)
  BY DEF Next, FindStep, Terminated, EnterMember, SkipUnknownMember, RejectUnknownMember,
         ParseInPlace, RejectNull, StoreForLater, ParseStored, ConstructEmpty,
         RejectMissing, SkipRest, CloseExact, Searching, Fail, Running

\* A parse returns arguments that ClassLookup allows or fails where it may, for
\* every document, mapping and order of the members.
THEOREM Refinement ==
  ASSUME TrustedInput, HashesTellApart
  PROVE  Spec => LookupSafety
  <1>1. Init => Lookup!Init
    <2> SUFFICES ASSUME Init
                 PROVE  Lookup!Init
      OBVIOUS
    <2>1. inner \in Seq(Cell) /\ mapping \in Mapping
      BY ConstantsAssumption DEF Init, ConstantsAssumption
    <2>2. QED
      BY <2>1 DEF Init, Lookup!Init, Lookup!Members, Outcome, Value, Cell, Names, Mapping, Members
  \* What the two lemmas say of the state a step leads to.
  <1>a. (IInv /\ phase = "failed" => Lookup!MayFail)'
    <2>1. IInv /\ phase = "failed" => Lookup!MayFail
      BY FailureAllowed
    <2>2. QED
      BY <2>1, PTL
  <1>b. (IInv /\ phase = "done" =>
           /\ Value \in [Members -> 0 .. Len(inner)]
           /\ \A m \in Members : Value[m] \in Lookup!Choices(m)
           /\ ~Lookup!MustFail)'
    <2>1. IInv /\ phase = "done" =>
            /\ Value \in [Members -> 0 .. Len(inner)]
            /\ \A m \in Members : Value[m] \in Lookup!Choices(m)
            /\ ~Lookup!MustFail
      BY DoneAllowed
    <2>2. QED
      BY <2>1, PTL
  <1>2. IInv /\ IInv' /\ [Next]_vars => [Lookup!Next]_(Lookup!vars)
    <2> SUFFICES ASSUME IInv, IInv', [Next]_vars
                 PROVE  [Lookup!Next]_(Lookup!vars)
      OBVIOUS
    <2>1. CASE UNCHANGED vars
      BY <2>1 DEF Lookup!vars, Outcome, Value, vars, RangeOf, CellAt, End
    <2>2. CASE Running /\ UNCHANGED document
      <3>1. Outcome = "parsing" /\ Value = [m \in Members |-> 0] /\ UNCHANGED <<inner, mapping>>
        BY <2>2 DEF Running, Outcome, Value, document
      <3>2. CASE phase' \in {"member", "find", "astray"}
        BY <3>1, <3>2 DEF Lookup!vars, Outcome, Value
      <3>3. CASE phase' = "failed"
        <4>1. Lookup!MayFail'
          BY <3>3, <1>a
        <4>2. Lookup!MayFail
          BY <3>1, <4>1 DEF Lookup!MayFail, Lookup!Absent, Lookup!Named, Lookup!Members
        <4>3. Outcome' = "failed" /\ Value' = Value
          BY <3>1, <3>3 DEF Outcome, Value
        <4>4. QED
          BY <3>1, <4>2, <4>3 DEF Lookup!Next, Lookup!Fail
      <3>4. CASE phase' = "done"
        <4>1. /\ Value' \in [Members -> 0 .. Len(inner)]
              /\ \A m \in Members : Value'[m] \in Lookup!Choices(m)
              /\ ~Lookup!MustFail
          <5>1. /\ Value' \in [Members -> 0 .. Len(inner')]
                /\ \A m \in Members : Value'[m] \in Lookup!Choices(m)'
                /\ ~Lookup!MustFail'
            BY <3>4, <1>b
          <5>2. \A m : Lookup!Choices(m)' = Lookup!Choices(m)
            BY <3>1 DEF Lookup!Choices, Lookup!Valued, Lookup!Absent, Lookup!Named
          <5>3. QED
            BY <3>1, <5>1, <5>2 DEF Lookup!MustFail, Lookup!Members
        <4>2. Outcome' = "done"
          BY <3>4 DEF Outcome
        <4>3. QED
          BY <3>1, <4>1, <4>2 DEF Lookup!Next, Lookup!Succeed, Lookup!Members, Members
      <3>5. phase' \in {"member", "find", "failed", "done", "astray"}
        BY DEF IInv, TypeOK, Phases
      <3>6. QED
        BY <3>2, <3>3, <3>4, <3>5
    <2>3. QED
      BY <2>1, <2>2, DocumentKept
  <1>3. QED
    BY <1>1, <1>2, InvariantHolds, PTL DEF LookupSafety, Lookup!Safety, Spec
=============================================================================
