--------------------------- MODULE Documents_proofs ---------------------------
(***************************************************************************)
(* Proofs about Documents: the parts that a document of lines is cut into  *)
(* begin with lines, have every element and do not overlap; the iterators  *)
(* implement ElementStream, and are equal where they are at the same       *)
(* element; and a path leads to the array that it names, or is refused if  *)
(* it names none.                                                          *)
(***************************************************************************)
EXTENDS Documents, Positions

(* A line begins at p.                                                     *)
AtLine(text, p) == p = 1 \/ text[p - 1] = "\n"

(* The parts, each of which has something in it, are one behind the other, *)
(* no further than p.                                                      *)
Within(text, part, p) ==
  /\ part.first \in 1 .. Len(text) /\ part.last \in 1 .. Len(text) + 1
  /\ part.first < part.last /\ part.last <= p
  /\ AtLine(text, part.first)
Apart(text, parts, p) ==
  /\ \A k \in DOMAIN parts : Within(text, parts[k], p)
  /\ \A j, k \in DOMAIN parts : j < k => parts[j].last <= parts[k].first

(* What the parts of a document that is cut promise.                       *)
PartsAreLines == doc.parts > 1 => Apart(doc.text, ranges, End)

Part == [first : Nat, last : Nat]

CutInv ==
  /\ doc \in Docs
  /\ doc.parts > 1 =>
       /\ ranges \in Seq(Part)
       /\ phase \in {"cut", "empty", "found", "refused", "iterate"}
       /\ phase = "found" => doc.form = "lines"
       /\ phase = "cut" => pos \in 1 .. End /\ (pos = End \/ AtLine(doc.text, pos)) /\ Apart(doc.text, ranges, pos)
       /\ Apart(doc.text, ranges, End)

-----------------------------------------------------------------------------
(* Searching in the text.                                                  *)

LEMMA TextFacts ==
  ASSUME doc \in Docs
  PROVE  doc.text \in Seq(STRING) /\ End \in Nat /\ End >= 1 /\ Len(doc.text) = End - 1
BY DocsAssumption DEF End

(***************************************************************************)
(* Behind the end of a line another one begins, or the document ends.      *)
(***************************************************************************)
LEMMA LineEndIsBehind ==
  ASSUME doc \in Docs, NEW p \in 1 .. End - 1
  PROVE  LineEnd(p) \in p + 1 .. End /\ (LineEnd(p) = End \/ AtLine(doc.text, LineEnd(p)))
<1> DEFINE ends == {q \in p .. Len(doc.text) : doc.text[q] = "\n"}
           end  == CHOOSE q \in ends : \A r \in ends : q <= r
<1>1. ends \in SUBSET Nat /\ ends \in SUBSET (p .. End - 1) /\ \A q \in ends : doc.text[q] = "\n"
  BY TextFacts
<1>2. LineEnd(p) = IF ends = {} THEN End ELSE end + 1
  BY DEF LineEnd
<1>3. CASE ends = {}
  BY <1>2, <1>3, TextFacts
<1>4. CASE ends # {}
  <2>1. end \in ends
    <3> HIDE DEF ends
    <3>1. \E i \in ends : \A j \in ends : i <= j
      BY <1>1, <1>4, LeastExists
    <3> QED
      BY <3>1
  <2> HIDE DEF ends, end
  <2>2. end \in p .. End - 1 /\ doc.text[end] = "\n" /\ LineEnd(p) = end + 1
    BY <1>1, <1>2, <1>4, <2>1
  <2>3. LineEnd(p) \in p + 1 .. End /\ LineEnd(p) - 1 = end
    BY <2>2, TextFacts
  <2> QED
    BY <2>2, <2>3 DEF AtLine
<1> QED
  BY <1>3, <1>4

(***************************************************************************)
(* White space is taken off the end of a part, and nothing else.           *)
(***************************************************************************)
LEMMA RTrimStays ==
  ASSUME doc \in Docs, NEW p \in 1 .. End, NEW last \in p .. End
  PROVE  RTrim(p, last) \in p .. last /\ \A r \in RTrim(p, last) .. (last - 1) : doc.text[r] \in Space
<1> DEFINE S == {q \in p .. last : \A r \in q .. (last - 1) : doc.text[r] \in Space}
           Ok(q) == (q = p \/ doc.text[q - 1] \notin Space) /\ \A r \in q .. (last - 1) : doc.text[r] \in Space
<1>1. End \in Nat /\ p \in Nat /\ last \in Nat /\ last \in S /\ S \in SUBSET Nat
  BY TextFacts
<1>2. PICK q \in S : \A r \in S : q <= r
  <2> HIDE DEF S
  <2> QED
    BY <1>1, LeastExists
<1>3. Ok(q)
  <2>1. CASE q = p
    BY <2>1
  <2>2. CASE q # p
    <3>1. q - 1 \in p .. last /\ q - 1 \notin S /\ q \in Int
      BY <1>1, <1>2, <2>2
    <3>2. PICK r \in q - 1 .. (last - 1) : doc.text[r] \notin Space
      BY <3>1
    <3>3. r \notin q .. (last - 1)
      BY <1>2, <3>2
    <3>4. r = q - 1
      BY <1>1, <3>1, <3>2, <3>3
    <3> QED
      BY <3>2, <3>4
  <2> QED
    BY <2>1, <2>2
<1>4. \E x \in p .. last : Ok(x)
  BY <1>2, <1>3
<1>5. RTrim(p, last) = CHOOSE x \in p .. last : Ok(x)
  BY DEF RTrim
<1>6. RTrim(p, last) \in p .. last /\ Ok(RTrim(p, last))
  <2> HIDE DEF Ok, S
  <2> QED
    BY <1>4, <1>5
<1> QED
  BY <1>6

-----------------------------------------------------------------------------
(* Every step keeps the parts apart.                                       *)

LEMMA CutInvInit == Init => CutInv
<1> SUFFICES ASSUME Init PROVE CutInv
  OBVIOUS
<1>1. doc \in Docs /\ End \in Nat /\ End >= 1
  BY TextFacts DEF Init
<1>2. ASSUME doc.parts > 1
      PROVE  /\ ranges = <<>> /\ phase = "cut" /\ pos = 1
  <2>1. doc.form = "lines" /\ doc.path = <<>> /\ doc.parts \in Nat /\ doc.parts # 1
    BY <1>1, <1>2, DocsAssumption
  <2> QED
    BY <1>2, <2>1 DEF Init
<1>3. ASSUME doc.parts > 1 PROVE Apart(doc.text, ranges, pos) /\ Apart(doc.text, ranges, End)
  BY <1>2, <1>3 DEF Apart
<1>4. ASSUME doc.parts > 1
      PROVE  ranges \in Seq(Part) /\ phase = "cut" /\ pos \in 1 .. End /\ AtLine(doc.text, pos)
  <2>1. ranges = <<>> /\ phase = "cut" /\ pos = 1
    BY <1>2, <1>4
  <2>2. ranges \in Seq(Part)
    BY <2>1
  <2>3. 1 \in 1 .. End
    BY <1>1
  <2> QED
    BY <2>1, <2>2, <2>3 DEF AtLine
<1> QED
  BY <1>1, <1>3, <1>4 DEF CutInv

(***************************************************************************)
(* A cut goes on to the end of a line, and takes the white space there off *)
(* the part.                                                               *)
(***************************************************************************)
LEMMA CutPlaces ==
  ASSUME CutInv, Cut, doc.parts > 1
  PROVE  \E next \in pos + 1 .. End, last \in pos .. End :
           /\ last \in pos .. next /\ (next = End \/ AtLine(doc.text, next))
           /\ \A r \in last .. next - 1 : doc.text[r] \in Space
           /\ pos' = next
           /\ ranges' = IF pos < last THEN Append(ranges, [first |-> pos, last |-> last]) ELSE ranges
<1> DEFINE short == pos + Segment >= End
           next  == IF short THEN End ELSE LineEnd(pos + Segment)
           last  == IF short THEN End ELSE RTrim(pos, next)
           part  == [first |-> pos, last |-> last]
<1>1. /\ doc \in Docs /\ End \in Nat /\ pos \in 1 .. End - 1
      /\ pos' = next /\ ranges' = IF pos < last THEN Append(ranges, part) ELSE ranges
  BY TextFacts DEF Cut, CutInv
<1>2. Segment \in Nat
  <2>1. doc.parts \in Nat /\ Len(doc.text) \in Nat
    BY <1>1, DocsAssumption
  <2> QED
    BY <2>1 DEF Segment
<1>3. /\ next \in pos + 1 .. End /\ (next = End \/ AtLine(doc.text, next))
      /\ last \in pos .. next /\ \A r \in last .. next - 1 : doc.text[r] \in Space
  <2>1. CASE short
    BY <1>1, <2>1
  <2>2. CASE ~ short
    <3>1. pos + Segment \in 1 .. End - 1 /\ pos + Segment >= pos
      BY <1>1, <1>2, <2>2
    <3>2. LineEnd(pos + Segment) \in pos + Segment + 1 .. End
          /\ (LineEnd(pos + Segment) = End \/ AtLine(doc.text, LineEnd(pos + Segment)))
      BY <1>1, <3>1, LineEndIsBehind
    <3>3. next \in pos + 1 .. End /\ (next = End \/ AtLine(doc.text, next))
      BY <1>1, <1>2, <2>2, <3>2
    <3>4. pos \in 1 .. End /\ next \in pos .. End
      BY <1>1, <3>3
    <3> HIDE DEF next
    <3>5. RTrim(pos, next) \in pos .. next /\ \A r \in RTrim(pos, next) .. next - 1 : doc.text[r] \in Space
      BY <1>1, <3>4, RTrimStays
    <3> QED
      BY <2>2, <3>3, <3>5
  <2> QED
    BY <2>1, <2>2
<1> HIDE DEF next, last
<1>4. last \in pos .. End
  BY <1>1, <1>3
<1> QED
  BY <1>1, <1>3, <1>4

(***************************************************************************)
(* A cut appends a part behind the others.                                 *)
(***************************************************************************)
LEMMA CutKeeps ==
  ASSUME CutInv, Cut, doc.parts > 1
  PROVE  CutInv'
<1>1. /\ doc \in Docs /\ doc' = doc /\ phase = "cut" /\ phase' = phase
      /\ End \in Nat /\ pos \in 1 .. End - 1 /\ AtLine(doc.text, pos) /\ Apart(doc.text, ranges, pos) /\ ranges \in Seq(Part)
  BY TextFacts DEF Cut, CutInv
<1>2. PICK next \in pos + 1 .. End, last \in pos .. End :
        /\ last \in pos .. next /\ (next = End \/ AtLine(doc.text, next))
        /\ pos' = next
        /\ ranges' = IF pos < last THEN Append(ranges, [first |-> pos, last |-> last]) ELSE ranges
  BY CutPlaces
<1> DEFINE part == [first |-> pos, last |-> last]
<1>3. /\ next \in pos + 1 .. End /\ (next = End \/ AtLine(doc.text, next)) /\ last \in pos .. next
      /\ pos' = next /\ ranges' = IF pos < last THEN Append(ranges, part) ELSE ranges
  BY <1>2
<1>4. part \in Part /\ part.first = pos /\ part.last = last
  BY <1>1, <1>3 DEF Part
<1> HIDE DEF part
<1>5. ranges' \in Seq(Part)
  BY <1>1, <1>3, <1>4
<1>6. ASSUME NEW k \in DOMAIN ranges' PROVE Within(doc.text, ranges'[k], next)
  <2>1. CASE k \in DOMAIN ranges
    <3>1. ranges'[k] = ranges[k]
      BY <1>1, <1>3, <1>4, <2>1
    <3>2. Within(doc.text, ranges[k], pos)
      BY <1>1, <2>1 DEF Apart
    <3> QED
      BY <1>1, <1>3, <3>1, <3>2 DEF Within
  <2>2. CASE k \notin DOMAIN ranges
    <3>1. ranges'[k] = part /\ pos < last
      BY <1>1, <1>3, <1>4, <1>6, <2>2
    <3>2. pos \in 1 .. Len(doc.text) /\ last \in 1 .. Len(doc.text) + 1 /\ last <= next
      BY <1>1, <1>3, TextFacts
    <3> QED
      BY <1>1, <1>4, <3>1, <3>2, Zenon DEF Within
  <2> QED
    BY <2>1, <2>2
<1>7. ASSUME NEW j \in DOMAIN ranges', NEW k \in DOMAIN ranges', j < k
      PROVE  ranges'[j].last <= ranges'[k].first
  <2>1. Len(ranges) \in Nat /\ j \in 1 .. Len(ranges) + 1 /\ k \in 1 .. Len(ranges) + 1
    BY <1>1, <1>3, <1>4, <1>7
  <2>2. j \in DOMAIN ranges /\ ranges'[j] = ranges[j]
    BY <1>1, <1>3, <1>4, <1>7, <2>1
  <2>3. CASE k \in DOMAIN ranges
    <3>1. ranges'[k] = ranges[k]
      BY <1>1, <1>3, <1>4, <2>3
    <3> QED
      BY <1>1, <1>7, <2>2, <2>3, <3>1 DEF Apart
  <2>4. CASE k \notin DOMAIN ranges
    <3>1. ranges'[k] = part
      BY <1>1, <1>3, <1>4, <1>7, <2>4
    <3>2. ranges[j].last <= pos
      BY <1>1, <2>2 DEF Apart, Within
    <3> QED
      BY <1>4, <2>2, <3>1, <3>2
  <2> QED
    BY <2>3, <2>4
<1>8. Apart(doc.text, ranges', next) /\ Apart(doc.text, ranges', End)
  <2>1. \A k \in DOMAIN ranges' : Within(doc.text, ranges'[k], End)
    BY <1>1, <1>3, <1>6 DEF Within
  <2> QED
    BY <1>6, <1>7, <2>1 DEF Apart
<1>9. End' = End
  BY <1>1 DEF End
<1> QED
  BY <1>1, <1>3, <1>5, <1>8, <1>9 DEF CutInv

LEMMA CutInvNext == CutInv /\ [Next]_vars => CutInv'
<1> SUFFICES ASSUME CutInv, [Next]_vars PROVE CutInv'
  OBVIOUS
<1>1. CASE Cut
  <2>1. CASE doc.parts > 1
    BY <1>1, <2>1, CutKeeps
  <2>2. CASE ~ (doc.parts > 1)
    BY <1>1, <2>2 DEF CutInv, Cut
  <2> QED
    BY <2>1, <2>2
<1>2. CASE CutAll
  <2>1. doc' = doc /\ ranges' = ranges /\ phase' \in {"empty", "found"} /\ phase = "cut"
    BY <1>2 DEF CutAll
  <2>2. doc.parts > 1 => doc.form = "lines"
    BY DocsAssumption DEF CutInv
  <2> QED
    BY <2>1, <2>2 DEF CutInv, End
<1>3. CASE Search
  <2>1. ~ (doc.parts > 1) /\ doc' = doc
    BY <1>3 DEF CutInv, Search, EnterClass, SameName, OtherName, EnterIndex, SkipElement, AtIndex, Found, Given
  <2> QED
    BY <2>1 DEF CutInv
<1>4. CASE StartArray \/ StartLines
  <2>1. doc' = doc /\ ranges' = ranges /\ phase' \in {"iterate", "refused"}
    BY <1>4 DEF StartArray, StartLines, Begin
  <2> QED
    BY <2>1 DEF CutInv, End
<1>5. ASSUME NEW i \in Iterators, NEW j \in Iterators, Dereference(i) \/ Step(i) \/ Copy(i, j)
      PROVE  CutInv'
  BY <1>5 DEF CutInv, End, Dereference, Step, Copy
<1>6. CASE UNCHANGED vars
  BY <1>6 DEF CutInv, End, vars
<1> QED
  BY <1>1, <1>2, <1>3, <1>4, <1>5, <1>6 DEF Next, Open

(***************************************************************************)
(* However long a document of lines is and into however many parts it is   *)
(* to be cut, every part begins with a line, none is empty and no two have *)
(* anything in common, so that they may be parsed at the same time         *)
(* (partition_jsonl_document).                                             *)
(***************************************************************************)
THEOREM PartsCorrect == Spec => []PartsAreLines
<1>1. CutInv => PartsAreLines
  BY DEF CutInv, PartsAreLines
<1> QED
  BY <1>1, CutInvInit, CutInvNext, PTL DEF Spec
-----------------------------------------------------------------------------
(* The list and where its elements are.                                    *)

ValuesAt == {p \in 1 .. Len(doc.text) : doc.text[p] \in Values}
SpacesAt == {p \in 1 .. Len(doc.text) : doc.text[p] \in Space}
CommasAt == {p \in 1 .. Len(doc.text) : doc.text[p] = ","}

LEMMA KindsApart == ValuesAt \cap SpacesAt = {} /\ CommasAt \cap SpacesAt = {} /\ CommasAt \cap ValuesAt = {}
BY DEF ValuesAt, SpacesAt, CommasAt, Values, Space

LEMMA CharKinds ==
  ASSUME doc \in Docs, NEW last \in 1 .. End, NEW p \in 1 .. last
  PROVE  /\ Char(p, last) \in Space <=> p # last /\ p \in SpacesAt
         /\ Char(p, last) \in Values <=> p # last /\ p \in ValuesAt
         /\ Char(p, last) = "," <=> p # last /\ p \in CommasAt
<1>1. p \in Nat /\ last \in Nat /\ last <= Len(doc.text) + 1
  BY TextFacts
<1>2. CASE p = last
  <2>1. Char(p, last) = NUL
    BY <1>1, <1>2 DEF Char
  <2> QED
    BY <1>2, <2>1 DEF NUL, Space, Values
<1>3. CASE p # last
  <2>1. p < last /\ p \in 1 .. Len(doc.text)
    BY <1>1, <1>3
  <2>2. Char(p, last) = doc.text[p]
    BY <2>1 DEF Char
  <2> QED
    BY <1>3, <2>1, <2>2, Zenon DEF SpacesAt, ValuesAt, CommasAt
<1> QED
  BY <1>2, <1>3

(***************************************************************************)
(* White space is passed, and nothing else (Trim).                         *)
(***************************************************************************)
LEMMA TrimFacts ==
  ASSUME doc \in Docs, NEW last \in 1 .. End, NEW p \in 1 .. last
  PROVE  /\ Trim(p, last) \in p .. last
         /\ Trim(p, last) = last \/ Trim(p, last) \notin SpacesAt
         /\ \A r \in p .. Trim(p, last) - 1 : r \in SpacesAt
         /\ Char(Trim(p, last), last) \notin Space
<1> DEFINE Hard == {q \in p .. last : Char(q, last) \notin Space}
           Ok(q) == Char(q, last) \notin Space /\ \A r \in p .. (q - 1) : Char(r, last) \in Space
<1>1. p \in Nat /\ last \in Nat /\ p >= 1 /\ last \in p .. last
  BY TextFacts
<1>2. last \in Hard /\ Hard \in SUBSET Nat
  <2>1. Char(last, last) \notin Space
    <3>1. last \in 1 .. last
      BY <1>1
    <3> QED
      BY <3>1, CharKinds, Zenon
  <2> QED
    BY <1>1, <2>1
<1>3. PICK q \in Hard : \A r \in Hard : q <= r
  <2> HIDE DEF Hard
  <2> QED
    BY <1>2, LeastExists
<1>4. q \in p .. last /\ Ok(q)
  <2>1. ASSUME NEW r \in p .. q - 1 PROVE Char(r, last) \in Space
    <3>1. r \in p .. last /\ ~ (q <= r)
      BY <1>1, <1>3
    <3> QED
      BY <1>3, <3>1
  <2> QED
    BY <1>3, <2>1
<1>5. Trim(p, last) \in p .. last /\ Ok(Trim(p, last))
  <2>1. Trim(p, last) = CHOOSE x \in p .. last : Ok(x)
    BY DEF Trim
  <2> HIDE DEF Ok
  <2> QED
    BY <1>4, <2>1
<1>6. ASSUME NEW r \in p .. Trim(p, last) - 1 PROVE r \in SpacesAt
  <2>1. r \in 1 .. last /\ Char(r, last) \in Space
    BY <1>1, <1>5
  <2> QED
    BY <2>1, CharKinds
<1>7. Trim(p, last) \in 1 .. last
  BY <1>1, <1>5
<1> QED
  BY <1>5, <1>6, <1>7, CharKinds

(* Where the list begins, and where it ends for one who reads up to last.  *)
Closes == {q \in doc.list .. Len(doc.text) : doc.text[q] = "]"}
Close  == CHOOSE q \in Closes : \A r \in Closes : q <= r
Lo == IF doc.form = "array" THEN doc.list + 1 ELSE 1
Hi(last) == IF doc.form = "array" THEN Close ELSE last

(* The document has a list, and is read up to last.                        *)
Reads(last) ==
  /\ doc \in Docs /\ WellWritten(doc) /\ doc.list # 0
  /\ last \in 1 .. End /\ (doc.form = "array" => last = End)

(***************************************************************************)
(* The list: values, white space, and commas with a value in front of them *)
(* before anything else but white space; nothing of them behind it.        *)
(***************************************************************************)
LEMMA ListFacts ==
  ASSUME NEW last, Reads(last)
  PROVE  /\ Lo \in Nat /\ Lo >= 1 /\ Hi(last) \in Lo .. last /\ last \in 1 .. End /\ End \in Nat
         /\ \A p \in Lo .. Hi(last) - 1 : p \in ValuesAt \cup SpacesAt \cup CommasAt
         /\ \A p \in Lo .. Hi(last) - 1 :
              p \in CommasAt => \E q \in Lo .. p - 1 : q \in ValuesAt /\ \A r \in q + 1 .. p - 1 : r \in SpacesAt
         /\ Hi(last) = last \/ Hi(last) \notin ValuesAt \cup SpacesAt \cup CommasAt
         /\ doc.form = "lines" => CommasAt = {}
         /\ doc.form = "array" => Hi(last) < last /\ doc.text[Hi(last)] = "]"
         /\ doc.form \in {"array", "lines"}
         /\ Elements \in SUBSET (1 .. End - 1)
         /\ \A p \in 1 .. last - 1 : p \in Elements <=> p \in Lo .. Hi(last) - 1 /\ p \in ValuesAt
<1>1. doc \in Docs /\ End \in Nat /\ End >= 1 /\ Len(doc.text) = End - 1 /\ last \in 1 .. End /\ doc.text \in Seq(STRING)
  BY TextFacts DEF Reads
<1>2. CASE doc.form = "array"
  <2>1. /\ HasArray(doc) /\ Lo = doc.list + 1 /\ Hi(last) = Close /\ last = End
    BY <1>2 DEF Reads, WellWritten, Lo, Hi
  <2>2. doc.list \in 1 .. End - 1
    <3>1. doc.list \in DOMAIN doc.text
      BY <2>1, Zenon DEF HasArray
    <3> QED
      BY <1>1, <3>1
  <2>3. PICK end \in doc.list + 1 .. End - 1 : doc.text[end] = "]" /\ IsList(doc.text, doc.list + 1, end - 1)
    BY <1>1, <2>1 DEF HasArray
  <2>4. doc.text[doc.list] = "["
    BY <2>1 DEF HasArray
  <2>5. Closes \in SUBSET Nat /\ end \in Closes
    <3>1. end \in doc.list .. Len(doc.text)
      BY <1>1, <2>2, <2>3
    <3>2. Closes \in SUBSET Nat
      BY <1>1, <2>2 DEF Closes
    <3> QED
      BY <2>3, <3>1, <3>2 DEF Closes
  <2>6. Close \in Closes /\ \A r \in Closes : Close <= r
    <3>1. \E q \in Closes : \A r \in Closes : q <= r
      BY <2>5, LeastExists
    <3> QED
      BY <3>1, Zenon DEF Close
  <2>7. doc.text[Close] = "]" /\ Close \in doc.list .. End - 1
    BY <1>1, <2>6 DEF Closes
  <2>8. ASSUME NEW p \in doc.list + 1 .. end - 1
        PROVE  doc.text[p] \in Values \cup Space \cup {","}
    BY <2>3 DEF IsList
  <2>9. Close = end
    <3>1. Close # doc.list
      BY <2>4, <2>7
    <3>2. Close \notin doc.list + 1 .. end - 1
      BY <2>7, <2>8 DEF Values, Space
    <3>3. Close <= end
      BY <2>5, <2>6
    <3> QED
      BY <2>2, <2>3, <2>7, <3>1, <3>2, <3>3
  <2>10. ASSUME NEW p \in Lo .. Hi(last) - 1 PROVE p \in ValuesAt \cup SpacesAt \cup CommasAt
    <3>1. p \in 1 .. Len(doc.text) /\ p \in doc.list + 1 .. end - 1
      BY <1>1, <2>1, <2>2, <2>3, <2>9
    <3> QED
      BY <2>8, <3>1, Zenon DEF ValuesAt, SpacesAt, CommasAt
  <2>11. ASSUME NEW p \in Lo .. Hi(last) - 1, p \in CommasAt
         PROVE  \E q \in Lo .. p - 1 : q \in ValuesAt /\ \A r \in q + 1 .. p - 1 : r \in SpacesAt
    <3>1. p \in doc.list + 1 .. end - 1 /\ doc.text[p] = ","
      BY <2>1, <2>9, <2>11 DEF CommasAt
    <3>2. doc.text[p] \notin Values \cup Space
      BY <3>1 DEF Values, Space
    <3>3. PICK q \in doc.list + 1 .. p - 1 : doc.text[q] \in Values /\ \A r \in q + 1 .. p - 1 : doc.text[r] \in Space
      BY <2>3, <3>1, <3>2, Zenon DEF IsList
    <3>4. q \in 1 .. Len(doc.text) /\ \A r \in q + 1 .. p - 1 : r \in 1 .. Len(doc.text)
      <4> DEFINE n == Len(doc.text)
                 a == doc.list
      <4>1. n \in Nat /\ End - 1 = n
        BY <1>1
      <4>2. a \in 1 .. n /\ end \in a + 1 .. n
        BY <2>2, <2>3, <4>1
      <4>3. p \in a + 1 .. end - 1
        BY <3>1
      <4>4. q \in a + 1 .. p - 1
        BY <3>3
      <4> HIDE DEF n, a
      <4>5. q \in 1 .. n /\ \A r \in q + 1 .. p - 1 : r \in 1 .. n
        BY <4>1, <4>2, <4>3, <4>4
      <4> QED
        BY <4>5 DEF n
    <3>5. q \in ValuesAt /\ \A r \in q + 1 .. p - 1 : r \in SpacesAt
      BY <3>3, <3>4, Zenon DEF ValuesAt, SpacesAt
    <3> QED
      BY <2>1, <3>5
  <2>12. Close \notin ValuesAt \cup SpacesAt \cup CommasAt
    BY <2>7, Zenon DEF ValuesAt, SpacesAt, CommasAt, Values, Space
  <2>13. Elements = {p \in doc.list .. Close - 1 : doc.text[p] \in Values}
    <3>1. doc.list # 0 /\ doc.form # "lines"
      BY <1>2 DEF Reads
    <3> QED
      BY <3>1 DEF Elements, Close, Closes
  <2>14. ASSUME NEW p \in 1 .. last - 1 PROVE p \in Elements <=> p \in Lo .. Hi(last) - 1 /\ p \in ValuesAt
    <3>1. p \in 1 .. Len(doc.text) /\ p \in Nat
      BY <1>1, <2>1
    <3>2. p \in ValuesAt <=> doc.text[p] \in Values
      BY <3>1 DEF ValuesAt
    <3>3. doc.text[doc.list] \notin Values
      BY <2>4 DEF Values
    <3>4. p \in Elements <=> p \in doc.list .. Close - 1 /\ p \in ValuesAt
      BY <2>13, <3>2
    <3>5. p \in ValuesAt => p # doc.list
      BY <3>2, <3>3
    <3> QED
      BY <2>1, <2>2, <2>7, <3>1, <3>4, <3>5
  <2>15. Elements \in SUBSET (1 .. End - 1)
    <3>1. Elements \in SUBSET (doc.list .. Close - 1)
      BY <2>13, Zenon
    <3>2. Close \in doc.list .. End - 1 /\ End \in Nat
      BY <1>1, <2>7
    <3> HIDE DEF Close
    <3>3. Elements \in SUBSET (doc.list .. End - 1)
      BY <2>2, <3>1, <3>2
    <3> QED
      BY <2>2, <3>3
  <2>17. Hi(last) < last /\ doc.text[Hi(last)] = "]"
    <3>1. Close \in doc.list .. End - 1 /\ End \in Nat
      BY <1>1, <2>7
    <3>2. Close < End
      BY <2>2, <3>1
    <3> QED
      BY <2>1, <2>7, <3>2, Zenon
  <2>16. Lo \in Nat /\ Lo >= 1 /\ Hi(last) \in Lo .. last /\ doc.form # "lines"
    BY <1>1, <1>2, <2>1, <2>2, <2>3, <2>9
  <2> QED
    BY <1>1, <1>2, <2>1, <2>10, <2>11, <2>12, <2>14, <2>15, <2>16, <2>17
<1>3. CASE doc.form = "lines"
  <2>1. HasLines(doc) /\ Lo = 1 /\ Hi(last) = last
    BY <1>3 DEF Reads, WellWritten, Lo, Hi
  <2>2. \A p \in 1 .. Len(doc.text) : doc.text[p] \in Values \cup Space
    BY <1>1, <2>1 DEF HasLines
  <2>3. \A p \in 1 .. Len(doc.text) : p \in ValuesAt \cup SpacesAt
    BY <2>2, Zenon DEF ValuesAt, SpacesAt
  <2>4. CommasAt = {}
    BY <2>2 DEF CommasAt, Values, Space
  <2>5. Elements = ValuesAt
    <3>1. doc.list = 1 /\ End - 1 = Len(doc.text)
      BY <1>1, <2>1 DEF HasLines
    <3>2. Elements = {p \in doc.list .. (End - 1) : doc.text[p] \in Values}
      BY <1>3, <3>1 DEF Elements
    <3> QED
      BY <3>1, <3>2 DEF ValuesAt
  <2>6. Elements \in SUBSET (1 .. End - 1)
    BY <1>1, <2>5 DEF ValuesAt
  <2>7. \A p \in Lo .. Hi(last) - 1 : p \in 1 .. Len(doc.text)
    BY <1>1, <2>1
  <2>8. Lo \in Nat /\ Lo >= 1 /\ Hi(last) \in Lo .. last
    BY <1>1, <2>1
  <2>9. \A p \in 1 .. last - 1 : p \in Lo .. Hi(last) - 1
    BY <2>1
  <2> QED
    BY <1>1, <1>3, <2>1, <2>3, <2>4, <2>5, <2>6, <2>7, <2>8, <2>9
<1> QED
  BY <1>2, <1>3 DEF Reads, WellWritten

(***************************************************************************)
(* The white space at the beginning of the list, or of a part, is followed *)
(* by an element or the end.                                               *)
(***************************************************************************)
LEMMA FirstElement ==
  ASSUME NEW last, Reads(last), NEW p \in Lo .. Hi(last), p = Lo \/ doc.form = "lines"
  PROVE  /\ Trim(p, last) \in p .. Hi(last)
         /\ Trim(p, last) = Hi(last) \/ Trim(p, last) \in Elements
         /\ \A r \in p .. Trim(p, last) - 1 : r \notin Elements
<1> DEFINE q == Trim(p, last)
           h == Hi(last)
<1>1. /\ Lo \in Nat /\ Lo >= 1 /\ h \in Lo .. last /\ last \in 1 .. End /\ End \in Nat
      /\ \A x \in Lo .. h - 1 : x \in ValuesAt \cup SpacesAt \cup CommasAt
      /\ \A x \in Lo .. h - 1 :
           x \in CommasAt => \E y \in Lo .. x - 1 : y \in ValuesAt /\ \A r \in y + 1 .. x - 1 : r \in SpacesAt
      /\ h = last \/ h \notin SpacesAt
      /\ \A x \in 1 .. last - 1 : x \in Elements <=> x \in Lo .. h - 1 /\ x \in ValuesAt
      /\ doc.form = "lines" => CommasAt = {}
  BY ListFacts
<1>2. p \in 1 .. last /\ p \in Lo .. h
  BY <1>1
<1>3. q \in p .. last /\ (q = last \/ q \notin SpacesAt) /\ \A r \in p .. q - 1 : r \in SpacesAt
  BY <1>2, TrimFacts DEF Reads
<1> HIDE DEF q, h
<1>4. q <= h
  BY <1>1, <1>2, <1>3
<1>5. ASSUME q \in CommasAt, q # h PROVE FALSE
  <2>1. q \in Lo .. h - 1 /\ p = Lo
    BY <1>1, <1>2, <1>3, <1>4, <1>5
  <2>2. PICK y \in Lo .. q - 1 : y \in ValuesAt
    BY <1>1, <1>5, <2>1
  <2>3. y \in SpacesAt
    BY <1>3, <2>1, <2>2
  <2> QED
    BY <2>2, <2>3, KindsApart
<1>6. q = h \/ q \in Elements
  <2>1. CASE q # h
    <3>1. q \in Lo .. h - 1 /\ q \in 1 .. last - 1
      BY <1>1, <1>2, <1>3, <1>4, <2>1
    <3>2. q \in ValuesAt
      BY <1>1, <1>3, <1>5, <2>1, <3>1
    <3> QED
      BY <1>1, <3>1, <3>2
  <2> QED
    BY <2>1
<1>7. ASSUME NEW r \in p .. q - 1 PROVE r \notin Elements
  <2>1. r \in SpacesAt /\ r \in 1 .. last - 1
    BY <1>1, <1>2, <1>3
  <2> QED
    BY <1>1, <2>1, KindsApart
<1> QED
  BY <1>1, <1>2, <1>3, <1>4, <1>6, <1>7 DEF q, h

(***************************************************************************)
(* Behind an element, with or without white space, the next one is found,  *)
(* or the end (NextMember).                                                *)
(***************************************************************************)
LEMMA NextElement ==
  ASSUME NEW last, Reads(last), NEW p \in Lo .. Hi(last)
  PROVE  /\ NextMember(p, last) \in p .. Hi(last)
         /\ NextMember(p, last) = Hi(last) \/ NextMember(p, last) \in Elements
         /\ \A r \in p .. NextMember(p, last) - 1 : r \notin Elements
<1> DEFINE q == Trim(p, last)
           n == Trim(q + 1, last)
           h == Hi(last)
<1>1. /\ Lo \in Nat /\ Lo >= 1 /\ h \in Lo .. last /\ last \in 1 .. End /\ End \in Nat
      /\ \A x \in Lo .. h - 1 : x \in ValuesAt \cup SpacesAt \cup CommasAt
      /\ \A x \in Lo .. h - 1 :
           x \in CommasAt => \E y \in Lo .. x - 1 : y \in ValuesAt /\ \A r \in y + 1 .. x - 1 : r \in SpacesAt
      /\ h = last \/ h \notin ValuesAt \cup SpacesAt \cup CommasAt
      /\ \A x \in 1 .. last - 1 : x \in Elements <=> x \in Lo .. h - 1 /\ x \in ValuesAt
  BY ListFacts
<1>2. p \in 1 .. last /\ p \in Lo .. h /\ last \in 1 .. End /\ doc \in Docs
  BY <1>1 DEF Reads
<1>3. q \in p .. last /\ (q = last \/ q \notin SpacesAt) /\ \A r \in p .. q - 1 : r \in SpacesAt
  BY <1>2, TrimFacts
<1>4. q \in 1 .. last
  BY <1>2, <1>3
<1>5. NextMember(p, last) = IF q # last /\ q \in CommasAt THEN n ELSE q
  <2>1. NextMember(p, last) = IF Char(q, last) = "," THEN n ELSE q
    BY DEF NextMember
  <2> HIDE DEF q, n
  <2> QED
    BY <1>1, <1>2, <1>4, <2>1, CharKinds
<1>6. ASSUME NEW r \in p .. q - 1 PROVE r \notin Elements
  <2>1. r \in SpacesAt /\ r \in 1 .. last - 1
    BY <1>1, <1>2, <1>3
  <2> QED
    BY <1>1, <2>1, KindsApart
<1>7. q <= h
  <2> HIDE DEF q, h
  <2> QED
    BY <1>1, <1>2, <1>3
<1>8. CASE q # last /\ q \in CommasAt
  <2>1. q + 1 \in 1 .. last /\ q # h /\ q \in Lo .. h - 1
    <3> HIDE DEF q, h
    <3> QED
      BY <1>1, <1>2, <1>3, <1>7, <1>8
  <2>2. n \in q + 1 .. last /\ (n = last \/ n \notin SpacesAt) /\ \A r \in q + 1 .. n - 1 : r \in SpacesAt
    <3> HIDE DEF q
    <3> QED
      BY <1>1, <1>2, <2>1, TrimFacts
  <2>3. NextMember(p, last) = n
    BY <1>5, <1>8
  <2> HIDE DEF q, n, h
  <2>4. n <= h
    BY <1>1, <1>2, <1>3, <2>1, <2>2
  <2>5. ASSUME n \in CommasAt, n # h PROVE FALSE
    <3>1. n \in Lo .. h - 1
      BY <1>1, <1>2, <1>3, <2>1, <2>2, <2>4, <2>5
    <3>2. PICK y \in Lo .. n - 1 : y \in ValuesAt /\ \A r \in y + 1 .. n - 1 : r \in SpacesAt
      BY <1>1, <2>5, <3>1
    <3>3. y \in Int /\ q \in Int /\ n \in Int /\ q < n
      BY <1>1, <1>4, <2>2, <3>1, <3>2
    <3>4. ~ (y < q)
      <4>1. y < q => q \in SpacesAt
        BY <3>2, <3>3
      <4> QED
        BY <1>8, <4>1, KindsApart
    <3>5. y # q
      BY <1>8, <3>2, KindsApart
    <3>6. y \in SpacesAt
      BY <2>2, <3>2, <3>3, <3>4, <3>5
    <3> QED
      BY <3>2, <3>6, KindsApart
  <2>6. n = h \/ n \in Elements
    <3>1. CASE n # h
      <4>1. n \in Lo .. h - 1 /\ n \in 1 .. last - 1
        BY <1>1, <1>2, <1>3, <2>1, <2>2, <2>4, <3>1
      <4>2. n \in ValuesAt
        BY <1>1, <2>2, <2>5, <3>1, <4>1
      <4> QED
        BY <1>1, <4>1, <4>2
    <3> QED
      BY <3>1
  <2>7. ASSUME NEW r \in p .. n - 1 PROVE r \notin Elements
    <3>1. r \in 1 .. last - 1 /\ (r \in p .. q - 1 \/ r = q \/ r \in q + 1 .. n - 1)
      BY <1>1, <1>2, <1>3, <2>2
    <3>2. CASE r = q
      BY <1>1, <1>8, <3>1, <3>2, KindsApart
    <3>3. CASE r \in q + 1 .. n - 1
      BY <1>1, <2>2, <3>1, <3>3, KindsApart
    <3> QED
      BY <1>6, <3>1, <3>2, <3>3
  <2>8. n \in p .. h
    BY <1>1, <1>2, <1>3, <2>2, <2>4
  <2> QED
    BY <2>3, <2>6, <2>7, <2>8 DEF h
<1>9. CASE ~ (q # last /\ q \in CommasAt)
  <2>1. NextMember(p, last) = q
    BY <1>5, <1>9
  <2> HIDE DEF q, n, h
  <2>2. q = h \/ q \in Elements
    <3>1. CASE q # h
      <4>1. q \in Lo .. h - 1 /\ q \in 1 .. last - 1
        BY <1>1, <1>2, <1>3, <1>7, <3>1
      <4>2. q \in ValuesAt
        BY <1>1, <1>3, <1>9, <4>1
      <4> QED
        BY <1>1, <4>1, <4>2
    <3> QED
      BY <3>1
  <2>3. q \in p .. h
    BY <1>1, <1>2, <1>3, <1>7
  <2> QED
    BY <1>6, <2>1, <2>2, <2>3 DEF h
<1> QED
  BY <1>8, <1>9

-----------------------------------------------------------------------------
(* Counting elements.                                                      *)

LEMMA BeforeIsCount ==
  ASSUME Elements \in SUBSET (1 .. End - 1), End \in Nat, NEW p \in 1 .. End
  PROVE  Before(p) = CountIn(Elements, 1, p - 1) /\ Before(p) \in Nat
<1>1. {e \in Elements : e < p} = Elements \cap (1 .. p - 1)
  <2> HIDE DEF Elements
  <2>1. \A e \in Elements : e \in 1 .. End - 1
    OBVIOUS
  <2>2. \A e \in Elements : e < p <=> e \in 1 .. p - 1
    BY <2>1
  <2> QED
    BY <2>2
<1>2. Before(p) = CountIn(Elements, 1, p - 1)
  BY <1>1, Zenon DEF Before, CountIn
<1> HIDE DEF Elements
<1> QED
  BY <1>2, CountType

LEMMA BeforeSame ==
  ASSUME Elements \in SUBSET (1 .. End - 1), End \in Nat, NEW p \in 1 .. End, NEW q \in p .. End,
         \A r \in p .. q - 1 : r \notin Elements
  PROVE  Before(q) = Before(p)
<1> HIDE DEF Elements
<1>1. Before(p) = CountIn(Elements, 1, p - 1) /\ Before(q) = CountIn(Elements, 1, q - 1) /\ q \in 1 .. End
  BY BeforeIsCount
<1>2. CountIn(Elements, 1, q - 1) = CountIn(Elements, 1, p - 1) + CountIn(Elements, (p - 1) + 1, q - 1)
  <2>1. 1 <= (p - 1) + 1 /\ p - 1 <= q - 1 /\ p - 1 \in Int /\ q - 1 \in Int
    OBVIOUS
  <2> QED
    BY <2>1, CountSplit
<1>3. CountIn(Elements, (p - 1) + 1, q - 1) = 0
  <2>1. Elements \cap ((p - 1) + 1 .. q - 1) = {}
    OBVIOUS
  <2>2. (p - 1) + 1 \in Int /\ q - 1 \in Int
    OBVIOUS
  <2> QED
    BY <2>1, <2>2, CountNone
<1> QED
  BY <1>1, <1>2, <1>3, BeforeIsCount

LEMMA BeforeStep ==
  ASSUME Elements \in SUBSET (1 .. End - 1), End \in Nat, NEW p \in Elements, NEW q \in p + 1 .. End,
         \A r \in p + 1 .. q - 1 : r \notin Elements
  PROVE  Before(q) = Before(p) + 1
<1> HIDE DEF Elements
<1>0. p \in 1 .. End - 1 /\ p + 1 \in 1 .. End /\ p \in 1 .. End
  OBVIOUS
<1>1. Before(q) = Before(p + 1)
  BY <1>0, BeforeSame
<1>2. Before(p) = CountIn(Elements, 1, p - 1) /\ Before(p + 1) = CountIn(Elements, 1, (p + 1) - 1) /\ Before(p) \in Nat
  BY <1>0, BeforeIsCount
<1>3. CountIn(Elements, 1, (p - 1) + 1) = CountIn(Elements, 1, p - 1) + (IF (p - 1) + 1 \in Elements THEN 1 ELSE 0)
  <2>1. p - 1 \in Int /\ 1 <= (p - 1) + 1
    BY <1>0
  <2> QED
    BY <2>1, CountLast
<1>4. (p - 1) + 1 = p /\ (p + 1) - 1 = p
  BY <1>0
<1> QED
  BY <1>1, <1>2, <1>3, <1>4

LEMMA BeforeGrows ==
  ASSUME Elements \in SUBSET (1 .. End - 1), End \in Nat, NEW p \in Elements, NEW q \in p + 1 .. End
  PROVE  Before(p) < Before(q)
<1> HIDE DEF Elements
<1>0. p \in 1 .. End - 1 /\ p + 1 \in 1 .. End /\ p \in 1 .. End /\ q \in 1 .. End
  OBVIOUS
<1>1. Before(p + 1) = Before(p) + 1
  BY <1>0, BeforeStep
<1>2. Before(p + 1) = CountIn(Elements, 1, p) /\ Before(q) = CountIn(Elements, 1, q - 1) /\ Before(p) \in Nat /\ Before(q) \in Nat
  <2>1. (p + 1) - 1 = p
    BY <1>0
  <2> QED
    BY <1>0, <2>1, BeforeIsCount
<1>3. CountIn(Elements, 1, q - 1) = CountIn(Elements, 1, p) + CountIn(Elements, p + 1, q - 1)
  <2>1. 1 <= p + 1 /\ p <= q - 1 /\ p \in Int /\ q - 1 \in Int
    BY <1>0
  <2> QED
    BY <2>1, CountSplit
<1>4. CountIn(Elements, p + 1, q - 1) \in Nat
  <2>1. p + 1 \in Int /\ q - 1 \in Int
    BY <1>0
  <2> QED
    BY <2>1, CountType
<1> QED
  BY <1>1, <1>2, <1>3, <1>4

-----------------------------------------------------------------------------
(* Iterators in the list.                                                  *)

Iter == [first : Nat, last : Nat, skip : Nat]

(* An iterator is at an element or at the end of the list, and what it     *)
(* keeps of the element it has parsed is a place in front of the next one. *)
Placed(it) ==
  /\ it \in Iter /\ Reads(it.last) /\ (doc.parts <= 1 => it.last = End)
  /\ it.first \in Lo .. Hi(it.last)
  /\ it.first = Hi(it.last) \/ it.first \in Elements
  /\ it.skip # 0 =>
       /\ it.first # Hi(it.last) /\ it.skip \in it.first + 1 .. Hi(it.last)
       /\ \A r \in it.first + 1 .. it.skip - 1 : r \notin Elements

LEMMA GoodIsBeforeEnd ==
  ASSUME NEW it, Placed(it)
  PROVE  /\ Good(it) <=> it.first # Hi(it.last)
         /\ Good(it) => /\ it.first \in Elements /\ it.first \in ValuesAt
                        /\ it.first + 1 \in Lo .. Hi(it.last) /\ it.first \in 1 .. End - 1
                        /\ Char(it.first, it.last) = doc.text[it.first]
<1> DEFINE f == it.first
           l == it.last
           h == Hi(l)
<1>1. /\ f \in Lo .. h /\ (f = h \/ f \in Elements) /\ Reads(l)
  BY DEF Placed
<1>2. /\ Lo \in Nat /\ Lo >= 1 /\ h \in Lo .. l /\ l \in 1 .. End /\ End \in Nat
      /\ \A x \in 1 .. l - 1 : x \in Elements <=> x \in Lo .. h - 1 /\ x \in ValuesAt
      /\ doc.form = "array" => h < l /\ doc.text[h] = "]"
      /\ doc.form # "array" => h = l
  BY <1>1, ListFacts DEF Hi
<1>3. Good(it) = (f < l /\ (doc.form = "array" => Char(f, l) # "]"))
  BY DEF Good
<1>4. ASSUME f # h PROVE Good(it) /\ f \in Elements /\ f \in ValuesAt /\ f + 1 \in Lo .. h /\ f \in 1 .. End - 1 /\ Char(f, l) = doc.text[f]
  <2>1. f \in Elements
    BY <1>1, <1>4
  <2>2. f < l /\ f \in 1 .. l - 1 /\ f + 1 \in Lo .. h /\ f \in 1 .. End - 1
    <3> HIDE DEF f, l, h
    <3>1. Lo \in Nat /\ Lo >= 1 /\ h \in Lo .. l /\ l \in 1 .. End /\ End \in Nat
      BY <1>2
    <3>2. f \in Lo .. h
      BY <1>1
    <3> QED
      BY <1>4, <3>1, <3>2
  <2>3. f \in ValuesAt
    BY <1>2, <2>1, <2>2
  <2>4. Char(f, l) = doc.text[f]
    BY <2>2 DEF Char
  <2>5. doc.text[f] # "]"
    BY <2>3 DEF ValuesAt, Values
  <2> QED
    BY <1>3, <2>1, <2>2, <2>3, <2>4, <2>5, Zenon
<1>5. ASSUME f = h PROVE ~ Good(it)
  <2>1. CASE doc.form = "array"
    BY <1>2, <1>3, <1>5, <2>1, Zenon DEF Char
  <2>2. CASE doc.form # "array"
    <3>1. h = l /\ l \in Int
      BY <1>2, <2>2
    <3>2. ~ (h < l)
      BY <3>1
    <3> QED
      BY <1>3, <1>5, <3>2, Zenon
  <2> QED
    BY <2>1, <2>2
<1> QED
  BY <1>4, <1>5

(***************************************************************************)
(* What follows white space in the list: a value, a comma or the end.      *)
(***************************************************************************)
LEMMA NextChar ==
  ASSUME NEW last, Reads(last), NEW p \in Lo .. Hi(last)
  PROVE  /\ Trim(p, last) \in p .. Hi(last)
         /\ \A r \in p .. Trim(p, last) - 1 : r \notin Elements
         /\ Char(Trim(p, last), last) \in Values \cup {",", "]", NUL}
<1> DEFINE q == Trim(p, last)
           h == Hi(last)
<1>1. /\ Lo \in Nat /\ Lo >= 1 /\ h \in Lo .. last /\ last \in 1 .. End /\ End \in Nat
      /\ \A x \in Lo .. h - 1 : x \in ValuesAt \cup SpacesAt \cup CommasAt
      /\ h = last \/ h \notin SpacesAt
      /\ \A x \in 1 .. last - 1 : x \in Elements <=> x \in Lo .. h - 1 /\ x \in ValuesAt
  BY ListFacts
<1>2. p \in 1 .. last /\ p \in Lo .. h /\ last \in 1 .. End /\ doc \in Docs
  BY <1>1 DEF Reads
<1>3. q \in p .. last /\ (q = last \/ q \notin SpacesAt) /\ \A r \in p .. q - 1 : r \in SpacesAt
  BY <1>2, TrimFacts
<1>4. q \in p .. h
  <2> HIDE DEF q, h
  <2> QED
    BY <1>1, <1>2, <1>3
<1>5. ASSUME NEW r \in p .. q - 1 PROVE r \notin Elements
  <2>1. r \in SpacesAt /\ r \in 1 .. last - 1
    BY <1>1, <1>2, <1>3
  <2> QED
    BY <1>1, <2>1, KindsApart
<1>6. Char(q, last) \in Values \cup {",", "]", NUL}
  <2>1. CASE q = last
    <3>1. Char(q, last) = NUL
      BY <1>1, <2>1 DEF Char
    <3> QED
      BY <3>1
  <2>2. CASE q # last /\ q = h
    <3>1. doc.form = "array" /\ doc.text[h] = "]" /\ h < last
      BY <1>1, <2>2, ListFacts DEF Hi
    <3>2. Char(q, last) = "]"
      BY <2>2, <3>1 DEF Char
    <3> QED
      BY <3>2
  <2>3. CASE q # last /\ q # h
    <3>1. q \in Lo .. h - 1
      <4> HIDE DEF q, h
      <4> QED
        BY <1>1, <1>2, <1>4, <2>3
    <3>2. q \in ValuesAt \cup CommasAt
      BY <1>1, <1>3, <2>3, <3>1
    <3>3. q \in 1 .. last
      BY <1>2, <1>3
    <3>4. Char(q, last) \in Values \/ Char(q, last) = ","
      <4> HIDE DEF q
      <4> QED
        BY <1>2, <2>3, <3>2, <3>3, CharKinds
    <3> QED
      BY <3>4
  <2> QED
    BY <2>1, <2>2, <2>3
<1> QED
  BY <1>4, <1>5, <1>6

-----------------------------------------------------------------------------
(* What is in front of an iterator, and what it is at.                     *)

LEMMA FrontOfIterators ==
  ASSUME NEW it, Placed(it)
  PROVE  /\ Before(it.first) \in Nat /\ Before(it.last) \in Nat
         /\ Good(it) <=> Before(it.first) < Before(it.last)
         /\ Before(it.first) <= Before(it.last)
         /\ it.first \in 1 .. End /\ it.last \in 1 .. End
<1> DEFINE f == it.first
           l == it.last
           h == Hi(l)
<1>1. f \in Lo .. h /\ (f = h \/ f \in Elements) /\ Reads(l)
  BY DEF Placed
<1>2. /\ Lo \in Nat /\ Lo >= 1 /\ h \in Lo .. l /\ l \in 1 .. End /\ End \in Nat
      /\ \A x \in 1 .. l - 1 : x \in Elements <=> x \in Lo .. h - 1 /\ x \in ValuesAt
      /\ Elements \in SUBSET (1 .. End - 1)
  BY <1>1, ListFacts
<1>3. Good(it) <=> f # h
  BY GoodIsBeforeEnd
<1> HIDE DEF f, l, h
<1>4. f \in 1 .. End /\ h \in 1 .. End /\ l \in h .. End /\ \A r \in h .. l - 1 : r \notin Elements
  BY <1>1, <1>2
<1>5. Before(l) = Before(h) /\ Before(f) \in Nat /\ Before(l) \in Nat
  BY <1>2, <1>4, BeforeSame, BeforeIsCount
<1>6. ASSUME f # h PROVE Before(f) < Before(h)
  <2>1. f \in Elements /\ h \in f + 1 .. End
    BY <1>1, <1>2, <1>4, <1>6
  <2> QED
    BY <1>2, <2>1, BeforeGrows
<1>7. f = h => ~ (Before(f) < Before(h))
  BY <1>5
<1>8. Good(it) <=> Before(f) < Before(l)
  BY <1>3, <1>5, <1>6, <1>7, Zenon
<1>9. Before(f) <= Before(l)
  BY <1>5, <1>6
<1> QED
  BY <1>2, <1>4, <1>5, <1>8, <1>9 DEF f, l

(***************************************************************************)
(* Before tells elements apart.                                            *)
(***************************************************************************)
LEMMA BeforeTells ==
  ASSUME Elements \in SUBSET (1 .. End - 1), End \in Nat, NEW p \in Elements, NEW q \in Elements, Before(p) = Before(q)
  PROVE  p = q
<1> HIDE DEF Elements
<1>1. p \in 1 .. End - 1 /\ q \in 1 .. End - 1 /\ p \in 1 .. End /\ q \in 1 .. End
  OBVIOUS
<1>2. Before(p) \in Nat /\ Before(q) \in Nat
  BY <1>1, BeforeIsCount
<1>3. CASE p < q
  <2>1. q \in p + 1 .. End
    BY <1>1, <1>3
  <2>2. Before(p) < Before(q)
    BY <2>1, BeforeGrows
  <2> QED
    BY <1>2, <2>2
<1>4. CASE q < p
  <2>1. p \in q + 1 .. End
    BY <1>1, <1>4
  <2>2. Before(q) < Before(p)
    BY <2>1, BeforeGrows
  <2> QED
    BY <1>2, <2>2
<1> QED
  BY <1>1, <1>3, <1>4

(***************************************************************************)
(* Every element is found by its number.                                   *)
(***************************************************************************)
LEMMA NthElement ==
  ASSUME Elements \in SUBSET (1 .. End - 1), End \in Nat, NEW p \in Elements
  PROVE  /\ Before(p) + 1 \in 1 .. Cardinality(Elements)
         /\ Suitable[Before(p) + 1] = Suits(p)
<1> DEFINE n == Cardinality(Elements)
           k == Before(p) + 1
<1> HIDE DEF Elements
<1>1. p \in 1 .. End /\ End \in 1 .. End /\ p + 1 \in 1 .. End /\ End \in p + 1 .. End
  OBVIOUS
<1>2. Before(End) = n
  <2>1. \A e \in Elements : e < End
    OBVIOUS
  <2>2. {e \in Elements : e < End} = Elements
    BY <2>1
  <2> QED
    BY <2>2, Zenon DEF Before
<1>3. Before(p) \in Nat /\ n \in Nat /\ Before(p) < n
  BY <1>1, <1>2, BeforeIsCount, BeforeGrows
<1>4. k \in 1 .. n /\ k - 1 = Before(p)
  BY <1>3
<1>5. Nth(k) \in Elements /\ Before(Nth(k)) = Before(p)
  <2>1. \E e \in Elements : Before(e) = k - 1
    BY <1>4
  <2>2. Nth(k) \in Elements /\ Before(Nth(k)) = k - 1
    BY <2>1, Zenon DEF Nth
  <2> QED
    BY <1>4, <2>2
<1>6. Nth(k) = p
  BY <1>5, BeforeTells
<1>7. Suitable[k] = Suits(Nth(k))
  BY <1>4, Zenon DEF Suitable
<1> QED
  BY <1>4, <1>6, <1>7

LEMMA ElementsBounded ==
  ASSUME NEW last, Reads(last), NEW p \in 1 .. End
  PROVE  Before(p) <= Cardinality(Elements) /\ Cardinality(Elements) \in Nat /\ Before(End) = Cardinality(Elements)
<1>1. Elements \in SUBSET (1 .. End - 1) /\ End \in Nat
  BY ListFacts
<1> HIDE DEF Elements
<1>2. End \in 1 .. End /\ \A e \in Elements : e < End
  BY <1>1
<1>3. {e \in Elements : e < End} = Elements
  BY <1>2
<1>4. Before(End) = Cardinality(Elements) /\ Before(End) \in Nat /\ Before(p) \in Nat
  BY <1>1, <1>2, <1>3, BeforeIsCount DEF Before
<1>5. {e \in Elements : e < p} \in SUBSET Elements /\ IsFiniteSet(Elements)
  <2>1. IsFiniteSet(1 .. End - 1)
    BY <1>1, FS_Interval
  <2> QED
    BY <1>1, <2>1, FS_Subset
<1>6. Cardinality({e \in Elements : e < p}) <= Cardinality(Elements)
  BY <1>5, FS_Subset
<1> QED
  BY <1>4, <1>6 DEF Before

-----------------------------------------------------------------------------
(* What is parsed and what is passed at an element.                        *)

(* A place behind the element at p, in front of everything but the white   *)
(* space there.                                                            *)
Follows(p, b, last) == b \in p + 1 .. Hi(last) /\ \A r \in p + 1 .. b - 1 : r \notin Elements

LEMMA TypeFacts ==
  ASSUME NEW it, Placed(it)
  PROVE  /\ doc.type \in {"number", "string", "class", "any"}
         /\ doc.type \in {"number", "any"} => it.last = End
         /\ doc.text # <<>>
<1>1. doc \in Docs /\ WellWritten(doc) /\ (doc.parts <= 1 => it.last = End)
  BY DEF Placed, Reads
<1>2. doc.parts \in Nat
  BY <1>1, DocsAssumption
<1>3. doc.type \in {"number", "any"} => ~ (doc.parts > 1)
  BY <1>1, Zenon DEF WellWritten
<1>4. ~ (doc.parts > 1) => doc.parts <= 1
  BY <1>2
<1> QED
  BY <1>1, <1>3, <1>4, Zenon DEF WellWritten

(***************************************************************************)
(* A value in the list, and whatever it is, is passed if something is      *)
(* behind it that can be (Behind).                                         *)
(***************************************************************************)
LEMMA BehindElement ==
  ASSUME NEW it, Placed(it), Good(it)
  PROVE  /\ Behind(it.first, it.last) = 0 \/ Follows(it.first, Behind(it.first, it.last), it.last)
         /\ doc.text[it.first] \in {"s", "o"} => Behind(it.first, it.last) = it.first + 1
         /\ doc.text[it.first] = "n" => Behind(it.first, it.last) = IF it.first + 1 < it.last THEN it.first + 1 ELSE 0
         /\ doc.text[it.first] = "b" =>
              (Behind(it.first, it.last) # 0 <=> Char(Trim(it.first + 1, it.last), it.last) \notin Values)
<1> DEFINE p == it.first
           l == it.last
           h == Hi(l)
           next == Trim(p + 1, l)
           x == doc.text[p]
<1>1. p \in ValuesAt /\ p + 1 \in Lo .. h /\ p \in 1 .. End - 1 /\ Char(p, l) = x /\ Reads(l) /\ h \in Lo .. l
  BY GoodIsBeforeEnd, ListFacts DEF Placed
<1>2. /\ next \in p + 1 .. h /\ \A r \in p + 1 .. next - 1 : r \notin Elements
      /\ Char(next, l) \in Values \cup {",", "]", NUL}
  BY <1>1, NextChar
<1>3. x \in Values
  BY <1>1 DEF ValuesAt
<1>4. Follows(p, p + 1, l) /\ Follows(p, next, l) /\ p + 1 # 0 /\ next # 0
  <2>1. p + 1 \in p + 1 .. h /\ next # 0 /\ p + 1 # 0
    <3>1. Lo \in Nat /\ h \in Lo .. l /\ l \in 1 .. End /\ End \in Nat
      BY <1>1, ListFacts
    <3>2. p + 1 \in Lo .. h /\ p \in 1 .. End - 1
      BY <1>1
    <3>3. next \in p + 1 .. h
      BY <1>2
    <3> HIDE DEF p, h, l, next
    <3> QED
      BY <3>1, <3>2, <3>3
  <2>2. \A r \in p + 1 .. (p + 1) - 1 : r \notin Elements
    <3> HIDE DEF p
    <3> QED
      BY <1>1
  <2> QED
    BY <1>2, <2>1, <2>2 DEF Follows
<1>5. Behind(p, l) = CASE x \in Left -> ClosingFrom(p)
                       [] x = "n" -> IF p + 1 < l THEN p + 1 ELSE 0
                       [] x = "b" -> IF Char(next, l) \in {",", "}", "]", NUL} THEN next ELSE 0
                       [] x \in {"s", "o"} \cup Names -> p + 1
                       [] OTHER -> 0
  BY <1>1 DEF Behind
<1>6. x \notin Left
  BY <1>3 DEF Values, Left
<1> DEFINE number == IF p + 1 < l THEN p + 1 ELSE 0
           bool   == IF Char(next, l) \in {",", "}", "]", NUL} THEN next ELSE 0
           other  == p + 1
           any    == ClosingFrom(p)
<1>a. Behind(p, l) = CASE x \in Left -> any [] x = "n" -> number [] x = "b" -> bool
                       [] x \in {"s", "o"} \cup Names -> other [] OTHER -> 0
  BY <1>5, Zenon
<1> HIDE DEF p, l, next, x, number, bool, other, any
<1>b. Behind(p, l) = IF x = "n" THEN number ELSE IF x = "b" THEN bool ELSE other
  BY <1>3, <1>6, <1>a DEF Values, Names
<1>7. CASE x = "n"
  <2>1. Behind(p, l) = IF p + 1 < l THEN p + 1 ELSE 0
    BY <1>7, <1>b, Zenon DEF number
  <2>2. Behind(p, l) = 0 \/ Behind(p, l) = p + 1
    BY <2>1, Zenon
  <2> QED
    BY <1>4, <1>7, <2>1, <2>2, Zenon DEF p, l, x
<1>8. CASE x = "b"
  <2>1. Behind(p, l) = IF Char(next, l) \in {",", "}", "]", NUL} THEN next ELSE 0
    BY <1>8, <1>b DEF bool
  <2>2. Char(next, l) \in {",", "}", "]", NUL} <=> Char(next, l) \notin Values
    BY <1>2 DEF Values, NUL
  <2>3. Behind(p, l) # 0 <=> Char(next, l) \notin Values
    BY <1>4, <2>1, <2>2, Zenon
  <2>4. Behind(p, l) = 0 \/ Behind(p, l) = next
    BY <2>1, Zenon
  <2>5. "b" \notin {"s", "o"} /\ "b" # "n"
    OBVIOUS
  <2> QED
    BY <1>4, <1>8, <2>3, <2>4, <2>5, Zenon DEF p, l, next, x
<1>9. CASE x \in {"s", "o"}
  <2>1. Behind(p, l) = p + 1
    BY <1>9, <1>b DEF other
  <2>2. x # "n" /\ x # "b"
    BY <1>9
  <2> QED
    BY <1>4, <2>1, <2>2, Zenon DEF p, l, x
<1> QED
  BY <1>3, <1>7, <1>8, <1>9 DEF Values

(***************************************************************************)
(* What is parsed is an element of the type asked for, and only that can   *)
(* be.                                                                     *)
(***************************************************************************)
LEMMA ParsedSuits ==
  ASSUME NEW it, Placed(it), Good(it)
  PROVE  /\ Parsed(it) # 0 <=> Suits(it.first)
         /\ Parsed(it) # 0 => Follows(it.first, Parsed(it), it.last)
<1> DEFINE p == it.first
           l == it.last
           h == Hi(l)
           next == Trim(p + 1, l)
           x == doc.text[p]
<1>1. p \in ValuesAt /\ p + 1 \in Lo .. h /\ p \in 1 .. End - 1 /\ Char(p, l) = x /\ Reads(l) /\ h \in Lo .. l
  BY GoodIsBeforeEnd, ListFacts DEF Placed
<1>2. /\ next \in p + 1 .. h /\ \A r \in p + 1 .. next - 1 : r \notin Elements
      /\ Char(next, l) \in Values \cup {",", "]", NUL}
  BY <1>1, NextChar
<1>3. x \in Values
  BY <1>1 DEF ValuesAt
<1>4. Follows(p, p + 1, l) /\ Follows(p, next, l) /\ p + 1 # 0 /\ next # 0
  <2>1. p + 1 \in p + 1 .. h /\ next # 0 /\ p + 1 # 0
    <3>1. Lo \in Nat /\ h \in Lo .. l /\ l \in 1 .. End /\ End \in Nat
      BY <1>1, ListFacts
    <3>2. p + 1 \in Lo .. h /\ p \in 1 .. End - 1
      BY <1>1
    <3>3. next \in p + 1 .. h
      BY <1>2
    <3> HIDE DEF p, h, l, next
    <3> QED
      BY <3>1, <3>2, <3>3
  <2>2. \A r \in p + 1 .. (p + 1) - 1 : r \notin Elements
    <3> HIDE DEF p
    <3> QED
      BY <1>1
  <2> QED
    BY <1>2, <2>1, <2>2 DEF Follows
<1>5. /\ doc.type \in {"number", "string", "class", "any"}
      /\ doc.type \in {"number", "any"} => l = End
  BY TypeFacts
<1>6. CASE doc.type = "any"
  <2>1. Parsed(it) = Behind(p, l)
    BY <1>6 DEF Parsed
  <2>2. l = End
    BY <1>5, <1>6
  <2>3. Suits(p) = ((x = "n" => p + 1 < l) /\ (x = "b" => Char(next, l) \notin Values))
    BY <1>6, <2>2, Zenon DEF Suits
  <2>4. /\ Behind(p, l) = 0 \/ Follows(p, Behind(p, l), l)
        /\ x \in {"s", "o"} => Behind(p, l) = p + 1
        /\ x = "n" => Behind(p, l) = IF p + 1 < l THEN p + 1 ELSE 0
        /\ x = "b" => (Behind(p, l) # 0 <=> Char(next, l) \notin Values)
    BY BehindElement
  <2>5. x \in {"s", "o", "n", "b"}
    BY <1>3 DEF Values
  <2> HIDE DEF p, l, next, x
  <2>6. Behind(p, l) # 0 <=> (x = "n" => p + 1 < l) /\ (x = "b" => Char(next, l) \notin Values)
    <3>1. CASE x = "n"
      BY <1>4, <2>4, <3>1
    <3>2. CASE x = "b"
      BY <2>4, <3>2
    <3>3. CASE x \in {"s", "o"}
      BY <1>4, <2>4, <3>3
    <3> QED
      BY <2>5, <3>1, <3>2, <3>3
  <2> QED
    BY <2>1, <2>3, <2>4, <2>6, Zenon DEF p, l
<1>7. CASE doc.type = "number"
  <2>1. l = End /\ Token[doc.type] = "n"
    BY <1>5, <1>7 DEF Token
  <2>2. Char(next, l) \notin {",", "}", "]", ":", NUL} <=> Char(next, l) \in Values
    BY <1>2 DEF Values, NUL
  <2>3. Parsed(it) = IF x # "n" THEN 0 ELSE IF Char(next, l) \notin {",", "}", "]", ":", NUL} THEN 0 ELSE next
    BY <1>1, <1>7, <2>1 DEF Parsed
  <2>4. Suits(p) = (x = "n" /\ Char(next, l) \notin Values)
    BY <1>7, <2>1 DEF Suits
  <2> HIDE DEF p, l, next, x
  <2>5. Parsed(it) # 0 <=> (x = "n" /\ Char(next, l) \notin Values)
    BY <1>4, <2>2, <2>3, Zenon
  <2>6. Parsed(it) = 0 \/ Parsed(it) = next
    BY <2>3, Zenon
  <2> QED
    BY <1>4, <2>4, <2>5, <2>6, Zenon DEF p, l
<1>8. CASE doc.type \in {"string", "class"}
  <2>1. Suits(p) = (x = Token[doc.type])
    BY <1>8 DEF Suits
  <2>2. Parsed(it) = IF x # Token[doc.type] THEN 0 ELSE IF doc.type = "string" THEN p + 1 ELSE next
    BY <1>1, <1>8 DEF Parsed
  <2> HIDE DEF p, l, next, x
  <2>3. Parsed(it) # 0 <=> x = Token[doc.type]
    BY <1>4, <2>2, Zenon
  <2>4. Parsed(it) = 0 \/ Parsed(it) = next \/ Parsed(it) = p + 1
    BY <2>2, Zenon
  <2> QED
    BY <1>4, <2>1, <2>3, <2>4, Zenon DEF p, l
<1> QED
  BY <1>5, <1>6, <1>7, <1>8

(***************************************************************************)
(* An element is passed, or refused, or, where a number is asked for and   *)
(* there is none, not moved over.                                          *)
(***************************************************************************)
LEMMA PassedFacts ==
  ASSUME NEW it, Placed(it), Good(it)
  PROVE  \/ Passed(it) = 0
         \/ Follows(it.first, Passed(it), it.last)
         \/ Passed(it) = it.first /\ ~ Suits(it.first)
<1> DEFINE p == it.first
           l == it.last
           x == doc.text[p]
<1>1. Char(p, l) = x
  BY GoodIsBeforeEnd
<1>2. Behind(p, l) = 0 \/ Follows(p, Behind(p, l), l)
  BY BehindElement
<1>3. doc.type \in {"number", "string", "class", "any"}
  BY TypeFacts
<1>4. CASE doc.type = "number"
  <2>1. Passed(it) = IF x = "n" THEN Behind(p, l) ELSE p
    BY <1>1, <1>4 DEF Passed
  <2>2. x # "n" => ~ Suits(p)
    BY <1>4 DEF Suits, Token
  <2> HIDE DEF p, l, x
  <2> QED
    BY <1>2, <2>1, <2>2, Zenon DEF p, l
<1>5. CASE doc.type # "number"
  <2>1. Passed(it) = IF doc.type = "any" \/ x = Token[doc.type] THEN Behind(p, l) ELSE 0
    BY <1>1, <1>3, <1>5 DEF Passed
  <2> QED
    BY <1>2, <2>1, Zenon
<1> QED
  BY <1>4, <1>5

-----------------------------------------------------------------------------
(* The search for the list, the parts and the iterators.                   *)

(* The search has found the list.                                          *)
OnList == doc.form = "array" => pos = doc.list

Idle == its = <<>> /\ answer = <<"none">>

OpenInv ==
  /\ doc \in Docs /\ pos \in 1 .. End
  /\ phase \in {"find", "name", "index", "cut", "empty", "found", "iterate", "refused"}
  /\ phase # "iterate" => Idle
  /\ phase \in {"cut", "empty"} => doc.parts > 1
  /\ doc.form = "lines" => phase \in {"cut", "empty", "found", "iterate"}
  /\ doc.form = "lines" /\ doc.parts <= 1 => ranges = <<[first |-> 1, last |-> End]>>

IterInv == phase = "iterate" /\ OnList => its \in [Iterators -> Iter] /\ \A i \in Iterators : Placed(its[i])

LEMMA BehindBounds ==
  ASSUME doc \in Docs, NEW p \in 1 .. End
  PROVE  Behind(p, End) = 0 \/ Behind(p, End) \in p + 1 .. End
<1> DEFINE next == Trim(p + 1, End)
           x == Char(p, End)
           closing == ClosingFrom(p)
           number == IF p + 1 < End THEN p + 1 ELSE 0
           bool == IF Char(next, End) \in {",", "}", "]", NUL} THEN next ELSE 0
<1>1. End \in Nat /\ End >= 1 /\ p \in Nat /\ Len(doc.text) = End - 1
  BY TextFacts
<1>2. CASE p = End
  <2>1. x = NUL
    BY <1>1, <1>2 DEF Char
  <2>2. Behind(p, End) = 0
    BY <2>1 DEF Behind, NUL, Left, Names
  <2> QED
    BY <2>2
<1>3. CASE p # End
  <2>1. p + 1 \in 1 .. End /\ p + 1 \in p + 1 .. End /\ End \in 1 .. End
    BY <1>1, <1>3
  <2>2. next \in p + 1 .. End
    BY <2>1, TrimFacts
  <2>3. closing = 0 \/ closing \in p + 1 .. End
    <3> DEFINE some(brackets, q) == Cardinality({y \in p .. q : doc.text[y] \in brackets})
               ends == {q \in p .. Len(doc.text) : some(Left, q) = some(Right, q)}
               end == CHOOSE q \in ends : \A r \in ends : q <= r
    <3>1. closing = IF ends = {} THEN 0 ELSE end + 1
      BY DEF ClosingFrom
    <3>2. ends \in SUBSET (p .. End - 1)
      BY <1>1, Zenon
    <3> HIDE DEF ends, closing
    <3>3. ASSUME ends # {} PROVE end \in ends
      <4>1. ends \in SUBSET Nat
        BY <1>1, <3>2
      <4>2. \E q \in ends : \A r \in ends : q <= r
        BY <3>3, <4>1, LeastExists
      <4> QED
        BY <4>2
    <3> HIDE DEF end
    <3>4. CASE ends = {}
      BY <3>1, <3>4
    <3>5. CASE ends # {}
      <4>1. end \in p .. End - 1
        BY <3>2, <3>3, <3>5, Zenon
      <4>2. end + 1 \in p + 1 .. End
        BY <1>1, <4>1
      <4> QED
        BY <3>1, <3>5, <4>2, Zenon
    <3> QED
      BY <3>4, <3>5
  <2>4. Behind(p, End) = CASE x \in Left -> closing [] x = "n" -> number [] x = "b" -> bool
                           [] x \in {"s", "o"} \cup Names -> p + 1 [] OTHER -> 0
    BY Zenon DEF Behind
  <2>5. number = 0 \/ number \in p + 1 .. End
    BY <2>1
  <2>6. bool = 0 \/ bool \in p + 1 .. End
    <3> HIDE DEF next
    <3> QED
      BY <2>2, Zenon
  <2> HIDE DEF x, closing, number, bool, next
  <2> DEFINE other == p + 1
             behind == Behind(p, End)
  <2>7. behind = CASE x \in Left -> closing [] x = "n" -> number [] x = "b" -> bool
                   [] x \in {"s", "o"} \cup Names -> other [] OTHER -> 0
    BY <2>4
  <2>9. other \in p + 1 .. End
    BY <2>1
  <2> HIDE DEF other, behind
  <2>8. behind = 0 \/ behind = closing \/ behind = number \/ behind = bool \/ behind = other
    BY <2>7 DEF Left, Names
  <2> DEFINE R == p + 1 .. End
  <2> HIDE DEF R
  <2>10. behind = 0 \/ behind \in R
    BY <2>3, <2>5, <2>6, <2>8, <2>9 DEF R
  <2> QED
    BY <2>10 DEF behind, R
<1> QED
  BY <1>2, <1>3

LEMMA NextMemberBounds ==
  ASSUME doc \in Docs, NEW p \in 1 .. End
  PROVE  NextMember(p, End) \in p .. End
<1> DEFINE q == Trim(p, End)
<1>1. End \in Nat /\ End \in 1 .. End
  BY TextFacts
<1>2. q \in p .. End
  BY <1>1, TrimFacts
<1>3. NextMember(p, End) = IF Char(q, End) = "," THEN Trim(q + 1, End) ELSE q
  BY DEF NextMember
<1> HIDE DEF q
<1>4. CASE Char(q, End) = ","
  <2>1. q \in 1 .. End
    BY <1>1, <1>2
  <2>2. q # End
    BY <1>1, <1>4, <2>1, CharKinds
  <2>3. q + 1 \in 1 .. End
    BY <1>1, <2>1, <2>2
  <2>4. Trim(q + 1, End) \in q + 1 .. End
    BY <1>1, <2>3, TrimFacts
  <2>5. NextMember(p, End) = Trim(q + 1, End)
    BY <1>3, <1>4, Zenon
  <2> QED
    BY <1>1, <1>2, <2>4, <2>5
<1>5. CASE Char(q, End) # ","
  BY <1>2, <1>3, <1>5, Zenon
<1> QED
  BY <1>4, <1>5

LEMMA CharInText ==
  ASSUME doc \in Docs, NEW p \in 1 .. End, Char(p, End) # NUL
  PROVE  p + 1 \in 1 .. End /\ p \in 1 .. End - 1 /\ Char(p, End) = doc.text[p]
<1>1. End \in Nat
  BY TextFacts
<1>2. p # End
  BY <1>1 DEF Char
<1>3. p < End
  BY <1>1, <1>2
<1> QED
  BY <1>1, <1>3 DEF Char

LEMMA ReadNameBounds ==
  ASSUME doc \in Docs, NEW place \in 1 .. End, pos \in 1 .. End, ReadName(place)
  PROVE  pos' \in 1 .. End /\ phase' \in {"name", "refused"}
<1> DEFINE colon == Trim(place + 1, End)
           value == Trim(colon + 1, End)
<1>1. IF Char(place, End) \in Names /\ Char(colon, End) = ":" THEN pos' = value /\ phase' = "name"
      ELSE phase' = "refused" /\ pos' = pos
  BY DEF ReadName, Refuse
<1>2. CASE Char(place, End) \in Names /\ Char(colon, End) = ":"
  <2>1. Char(place, End) # NUL /\ Char(colon, End) # NUL
    BY <1>2 DEF Names, NUL
  <2>2. place + 1 \in 1 .. End
    BY <2>1, CharInText
  <2>3. End \in 1 .. End /\ End \in Nat
    BY TextFacts
  <2>4. colon \in place + 1 .. End
    BY <2>2, <2>3, TrimFacts
  <2>5. colon \in 1 .. End
    BY <2>2, <2>3, <2>4
  <2> HIDE DEF colon
  <2>6. colon + 1 \in 1 .. End
    BY <2>1, <2>5, CharInText
  <2>7. value \in colon + 1 .. End
    BY <2>3, <2>6, TrimFacts
  <2> HIDE DEF value
  <2>8. value \in 1 .. End
    BY <2>3, <2>6, <2>7
  <2> QED
    BY <1>1, <1>2, <2>8
<1>3. CASE ~ (Char(place, End) \in Names /\ Char(colon, End) = ":")
  BY <1>1, <1>3
<1> QED
  BY <1>2, <1>3

LEMMA SearchBounds ==
  ASSUME doc \in Docs, pos \in 1 .. End, Search
  PROVE  /\ pos' \in 1 .. End /\ UNCHANGED Given
         /\ phase \in {"find", "name", "index"} /\ phase' \in {"find", "name", "index", "found", "refused"}
<1>1. End \in Nat /\ End \in 1 .. End /\ pos \in Nat
  BY TextFacts
<1>2. ASSUME NEW c, Char(pos, End) = c, c # NUL PROVE Trim(pos + 1, End) \in 1 .. End
  <2>1. pos + 1 \in 1 .. End
    BY <1>2, CharInText
  <2>2. Trim(pos + 1, End) \in pos + 1 .. End
    BY <1>1, <2>1, TrimFacts
  <2> QED
    BY <1>1, <2>1, <2>2
<1>3. ASSUME NEW b, b \in 1 .. End PROVE NextMember(b, End) \in 1 .. End
  <2>1. NextMember(b, End) \in b .. End
    BY <1>3, NextMemberBounds
  <2> QED
    BY <1>1, <1>3, <2>1
<1>4. Behind(pos, End) = 0 \/ Behind(pos, End) \in 1 .. End
  <2>1. Behind(pos, End) = 0 \/ Behind(pos, End) \in pos + 1 .. End
    BY BehindBounds
  <2> QED
    BY <1>1, <2>1
<1>5. CASE EnterClass
  <2>1. phase = "find" /\ UNCHANGED Given
    BY <1>5 DEF EnterClass
  <2>2. CASE Char(pos, End) = "{"
    <3>1. "{" # NUL
      BY DEF NUL
    <3>2. Trim(pos + 1, End) \in 1 .. End /\ ReadName(Trim(pos + 1, End))
      BY <1>2, <1>5, <2>2, <3>1 DEF EnterClass
    <3>3. pos' \in 1 .. End /\ phase' \in {"name", "refused"}
      BY <3>2, ReadNameBounds
    <3> QED
      BY <2>1, <3>3
  <2>3. CASE Char(pos, End) # "{"
    BY <1>5, <2>1, <2>3 DEF EnterClass, Refuse
  <2> QED
    BY <2>2, <2>3
<1>6. CASE SameName
  BY <1>6 DEF SameName
<1>7. CASE OtherName
  <2>1. phase = "name" /\ UNCHANGED Given
    BY <1>7 DEF OtherName
  <2>2. CASE Behind(pos, End) = 0
    BY <1>7, <2>1, <2>2 DEF OtherName, Refuse
  <2>3. CASE Behind(pos, End) # 0
    <3>1. NextMember(Behind(pos, End), End) \in 1 .. End /\ ReadName(NextMember(Behind(pos, End), End))
      BY <1>3, <1>4, <1>7, <2>3 DEF OtherName
    <3>2. pos' \in 1 .. End /\ phase' \in {"name", "refused"}
      BY <3>1, ReadNameBounds
    <3> QED
      BY <2>1, <3>2
  <2> QED
    BY <2>2, <2>3
<1>8. CASE EnterIndex
  <2>1. phase = "find" /\ UNCHANGED Given
    BY <1>8 DEF EnterIndex
  <2>2. CASE Char(pos, End) = "["
    <3>1. "[" # NUL
      BY DEF NUL
    <3>2. Trim(pos + 1, End) \in 1 .. End
      BY <1>2, <2>2, <3>1
    <3> QED
      BY <1>8, <2>1, <2>2, <3>2 DEF EnterIndex
  <2>3. CASE Char(pos, End) # "["
    BY <1>8, <2>1, <2>3 DEF EnterIndex, Refuse
  <2> QED
    BY <2>2, <2>3
<1>9. CASE SkipElement
  <2> DEFINE behind == IF Behind(pos, End) = 0 THEN 0 ELSE Trim(Behind(pos, End), End)
  <2>1. phase = "index" /\ UNCHANGED Given
    BY <1>9 DEF SkipElement
  <2>2. behind = 0 \/ behind \in 1 .. End
    <3>1. CASE Behind(pos, End) # 0
      <4>1. Behind(pos, End) \in 1 .. End
        BY <1>4, <3>1
      <4>2. Trim(Behind(pos, End), End) \in Behind(pos, End) .. End
        BY <1>1, <4>1, TrimFacts
      <4> QED
        BY <1>1, <4>1, <4>2
    <3> QED
      BY <3>1
  <2>3. (phase' = "refused" /\ pos' = pos) \/ (behind # 0 /\ pos' = NextMember(behind, End) /\ phase' = phase)
    BY <1>9 DEF SkipElement, Refuse
  <2> HIDE DEF behind
  <2>4. behind # 0 => NextMember(behind, End) \in 1 .. End
    BY <1>3, <2>2
  <2> QED
    BY <2>1, <2>3, <2>4
<1>10. CASE AtIndex
  BY <1>10 DEF AtIndex
<1>11. CASE Found
  BY <1>11 DEF Found, Refuse
<1> QED
  BY <1>5, <1>6, <1>7, <1>8, <1>9, <1>10, <1>11 DEF Search

LEMMA OpenInvInit ==
  ASSUME GivenWellWritten
  PROVE  Init => OpenInv /\ IterInv
<1> SUFFICES ASSUME Init PROVE OpenInv /\ IterInv
  OBVIOUS
<1>1. doc \in Docs /\ WellWritten(doc) /\ End \in Nat /\ 1 \in 1 .. End /\ End \in 1 .. End
  BY TextFacts DEF Init, GivenWellWritten
<1>2. pos \in 1 .. End
  <2>1. Trim(1, End) \in 1 .. End
    BY <1>1, TrimFacts
  <2>2. pos = 1 \/ pos = Trim(1, End)
    BY DEF Init
  <2> QED
    BY <1>1, <2>1, <2>2
<1>3. phase \in {"find", "cut", "found"} /\ (phase = "cut" => doc.parts > 1)
  BY DEF Init
<1>4. doc.form = "lines" => doc.path = <<>> /\ doc.parts >= 1 /\ phase \in {"cut", "found"}
  <2>1. doc.form = "lines" => HasLines(doc)
    BY <1>1 DEF WellWritten
  <2> QED
    BY <2>1 DEF HasLines, Init
<1>5. ASSUME doc.form = "lines", doc.parts <= 1 PROVE ranges = <<[first |-> 1, last |-> End]>>
  <2>1. doc.parts \in Nat
    BY <1>1, DocsAssumption
  <2>2. doc.parts = 1
    BY <1>4, <1>5, <2>1
  <2> QED
    BY <2>2 DEF Init
<1>6. Idle
  BY DEF Init, Idle
<1> QED
  BY <1>1, <1>2, <1>3, <1>4, <1>5, <1>6 DEF OpenInv, IterInv

LEMMA OpenInvNext ==
  ASSUME GivenWellWritten, CutInv, OpenInv, [Next]_vars
  PROVE  OpenInv'
<1>1. doc \in Docs /\ WellWritten(doc) /\ pos \in 1 .. End
  BY DEF OpenInv, GivenWellWritten
<1>2. ASSUME doc' = doc PROVE End' = End
  BY <1>2 DEF End
<1>3. CASE Search
  <2>1. /\ pos' \in 1 .. End /\ UNCHANGED Given
        /\ phase \in {"find", "name", "index"} /\ phase' \in {"find", "name", "index", "found", "refused"}
    BY <1>1, <1>3, SearchBounds
  <2>2. /\ doc' = doc /\ its' = its /\ answer' = answer /\ ranges' = ranges /\ Idle
    BY <2>1 DEF Given, OpenInv
  <2> QED
    BY <1>2, <2>1, <2>2 DEF OpenInv, Idle
<1>4. CASE Cut
  <2>1. doc' = doc /\ phase = "cut" /\ phase' = phase /\ its' = its /\ answer' = answer /\ doc.parts > 1
    BY <1>4 DEF Cut, OpenInv
  <2>2. CutInv'
    BY <1>4, <2>1, CutKeeps
  <2>3. pos' \in 1 .. End
    BY <1>2, <2>1, <2>2 DEF CutInv
  <2>4. ~ (doc.parts <= 1)
    <3>1. doc.parts \in Nat
      BY <1>1, DocsAssumption
    <3> QED
      BY <2>1, <3>1
  <2> QED
    BY <1>2, <2>1, <2>3, <2>4 DEF OpenInv, Idle
<1>5. CASE CutAll
  BY <1>2, <1>5 DEF CutAll, OpenInv, Idle
<1>6. CASE StartArray
  <2>1. doc.form = "array" /\ phase = "found"
    BY <1>6 DEF StartArray
  <2>2. CASE Char(pos, End) = "["
    <3>1. doc' = doc /\ pos' = pos /\ ranges' = ranges /\ phase' = "iterate"
      BY <1>6, <2>2 DEF StartArray, Begin
    <3> QED
      BY <1>2, <2>1, <3>1 DEF OpenInv, Idle
  <2>3. CASE Char(pos, End) # "["
    <3>1. /\ doc' = doc /\ pos' = pos /\ ranges' = ranges /\ phase' = "refused"
          /\ its' = its /\ answer' = answer
      BY <1>6, <2>3 DEF StartArray
    <3> QED
      BY <1>2, <2>1, <3>1 DEF OpenInv, Idle
  <2> QED
    BY <2>2, <2>3
<1>7. CASE StartLines
  <2>1. doc' = doc /\ pos' = pos /\ ranges' = ranges /\ phase' = "iterate"
    BY <1>7 DEF StartLines, Begin
  <2> QED
    BY <1>2, <2>1 DEF OpenInv, Idle
<1>8. ASSUME NEW i \in Iterators, NEW j \in Iterators, Dereference(i) \/ Step(i) \/ Copy(i, j)
      PROVE  OpenInv'
  <2>1. doc' = doc /\ pos' = pos /\ ranges' = ranges /\ phase' = "iterate" /\ phase = "iterate"
    BY <1>8 DEF Dereference, Step, Copy
  <2> QED
    BY <1>2, <2>1 DEF OpenInv, Idle
<1>9. CASE UNCHANGED vars
  BY <1>2, <1>9 DEF OpenInv, Idle, vars
<1> QED
  BY <1>3, <1>4, <1>5, <1>6, <1>7, <1>8, <1>9 DEF Next, Open

(***************************************************************************)
(* Every part is in the text, and reading one is reading the list.         *)
(***************************************************************************)
LEMMA PartReads ==
  ASSUME GivenWellWritten, CutInv, OpenInv, doc.form = "lines", phase \in {"found", "iterate"}, NEW k \in DOMAIN ranges
  PROVE  /\ ranges[k].first \in 1 .. ranges[k].last /\ ranges[k].last \in 1 .. End
         /\ Reads(ranges[k].last) /\ (doc.parts <= 1 => ranges[k].last = End)
         /\ ranges[k].first < ranges[k].last
<1>1. doc \in Docs /\ WellWritten(doc) /\ End \in Nat /\ End >= 1 /\ Len(doc.text) = End - 1 /\ doc.text \in Seq(STRING)
  BY TextFacts DEF OpenInv, GivenWellWritten
<1>2. doc.list # 0
  BY <1>1 DEF WellWritten, HasLines
<1>3. doc.parts \in Nat
  BY <1>1, DocsAssumption
<1>4. CASE doc.parts <= 1
  <2>1. ranges = <<[first |-> 1, last |-> End]>>
    BY <1>4 DEF OpenInv
  <2>2. ranges[k].first = 1 /\ ranges[k].last = End
    BY <2>1
  <2>3. End > 1
    <3>1. Len(doc.text) # 0
      BY <1>1 DEF WellWritten
    <3> QED
      BY <1>1, <3>1
  <2> QED
    BY <1>1, <1>2, <2>2, <2>3 DEF Reads
<1>5. CASE doc.parts > 1
  <2>1. Within(doc.text, ranges[k], End)
    BY <1>5 DEF CutInv, Apart
  <2>2. /\ ranges[k].first \in 1 .. Len(doc.text) /\ ranges[k].last \in 1 .. Len(doc.text) + 1
        /\ ranges[k].first < ranges[k].last
    BY <2>1 DEF Within
  <2>3. ranges[k].first \in 1 .. ranges[k].last /\ ranges[k].last \in 1 .. End /\ ~ (doc.parts <= 1)
    BY <1>1, <1>3, <1>5, <2>2
  <2> QED
    BY <1>1, <1>2, <2>2, <2>3 DEF Reads
<1> QED
  BY <1>3, <1>4, <1>5

LEMMA IterInvPrimed ==
  ASSUME doc' = doc, its' \in [Iterators -> Iter], \A i \in Iterators : Placed(its'[i])
  PROVE  IterInv'
<1>1. End' = End
  BY DEF End
<1>2. Elements' = Elements
  BY <1>1 DEF Elements, End
<1>3. Close' = Close
  BY DEF Close, Closes
<1> QED
  BY <1>1, <1>2, <1>3 DEF IterInv, Placed, Reads, Lo, Hi, Iter

(***************************************************************************)
(* What an iterator begins with, is moved to or keeps is in the list.      *)
(***************************************************************************)
LEMMA NewIsPlaced ==
  ASSUME NEW last, Reads(last), doc.parts <= 1 => last = End, NEW p \in Lo .. Hi(last), p = Lo \/ doc.form = "lines"
  PROVE  /\ Placed(New(p, last))
         /\ Before(New(p, last).first) = Before(p)
<1> DEFINE first == Trim(p, last)
           it == New(p, last)
<1>1. /\ first \in p .. Hi(last) /\ (first = Hi(last) \/ first \in Elements)
      /\ \A r \in p .. first - 1 : r \notin Elements
  BY FirstElement
<1>2. it.first = first /\ it.last = last /\ it.skip = 0 /\ it = [first |-> first, last |-> last, skip |-> 0]
  BY DEF New
<1>3. /\ Lo \in Nat /\ Lo >= 1 /\ Hi(last) \in Lo .. last /\ last \in 1 .. End /\ End \in Nat
      /\ Elements \in SUBSET (1 .. End - 1)
  BY ListFacts
<1> DEFINE h == Hi(last)
<1> HIDE DEF first, it, h
<1>4. first \in Lo .. h /\ first \in Nat /\ last \in Nat /\ p \in 1 .. End /\ first \in p .. End
  BY <1>1, <1>3 DEF h
<1>5. it \in Iter
  BY <1>2, <1>4 DEF Iter
<1>6. Before(first) = Before(p)
  BY <1>1, <1>3, <1>4, BeforeSame
<1>7. Placed(it)
  BY <1>1, <1>2, <1>4, <1>5 DEF Placed, h
<1> QED
  BY <1>2, <1>6, <1>7, Zenon DEF it

LEMMA MovedRecord ==
  ASSUME NEW it \in Iter, NEW n \in Nat
  PROVE  LET to == [it EXCEPT !.first = n, !.skip = 0]
         IN  to.first = n /\ to.last = it.last /\ to.skip = 0 /\ to = [first |-> n, last |-> it.last, skip |-> 0]
<1> DEFINE half == [it EXCEPT !.first = n]
           to   == [half EXCEPT !.skip = 0]
<1>1. half \in Iter /\ half.first = n /\ half.last = it.last
  BY DEF Iter
<1>2. to.first = half.first /\ to.last = half.last /\ to.skip = 0 /\ to = [first |-> half.first, last |-> half.last, skip |-> 0]
  <2> HIDE DEF half
  <2> QED
    BY <1>1 DEF Iter
<1>3. to.first = n /\ to.last = it.last /\ to.skip = 0 /\ to = [first |-> n, last |-> it.last, skip |-> 0]
  <2> HIDE DEF half, to
  <2> QED
    BY <1>1, <1>2
<1> QED
  BY <1>3

LEMMA MovedIsPlaced ==
  ASSUME NEW it, Placed(it), Good(it), NEW b, Follows(it.first, b, it.last)
  PROVE  LET to == [it EXCEPT !.first = NextMember(b, it.last), !.skip = 0]
         IN  /\ Placed(to) /\ to.last = it.last /\ to.skip = 0
             /\ Before(to.first) = Before(it.first) + 1
<1> DEFINE f == it.first
           l == it.last
           h == Hi(l)
           n == NextMember(b, l)
           to == [it EXCEPT !.first = n, !.skip = 0]
<1>1. /\ it \in Iter /\ Reads(l) /\ (doc.parts <= 1 => l = End)
      /\ f \in Elements /\ f + 1 \in Lo .. h /\ f \in 1 .. End - 1
  BY GoodIsBeforeEnd DEF Placed
<1>2. /\ Lo \in Nat /\ Lo >= 1 /\ h \in Lo .. l /\ l \in 1 .. End /\ End \in Nat
      /\ Elements \in SUBSET (1 .. End - 1)
  BY <1>1, ListFacts
<1>3. b \in f + 1 .. h /\ \A r \in f + 1 .. b - 1 : r \notin Elements
  BY DEF Follows
<1>4. b \in Lo .. h
  <2> HIDE DEF f, l, h
  <2> QED
    BY <1>1, <1>2, <1>3
<1>5. n \in b .. h /\ (n = h \/ n \in Elements) /\ \A r \in b .. n - 1 : r \notin Elements
  BY <1>1, <1>4, NextElement
<1> HIDE DEF n
<1>6. to.first = n /\ to.last = l /\ to.skip = 0 /\ to = [first |-> n, last |-> l, skip |-> 0]
  <2>1. n \in Nat
    <3> HIDE DEF f, l, h
    <3> QED
      BY <1>1, <1>2, <1>3, <1>5
  <2> QED
    BY <1>1, <2>1, MovedRecord
<1> HIDE DEF f, l, h, to
<1>7. /\ n \in Lo .. h /\ n \in Nat /\ l \in Nat /\ n \in f + 1 .. End
      /\ \A r \in f + 1 .. n - 1 : r \notin Elements
  BY <1>1, <1>2, <1>3, <1>4, <1>5
<1>8. to \in Iter
  BY <1>6, <1>7 DEF Iter
<1>9. Before(n) = Before(f) + 1
  BY <1>1, <1>2, <1>7, BeforeStep
<1>10. Placed(to)
  BY <1>1, <1>5, <1>6, <1>7, <1>8 DEF Placed, h
<1> QED
  BY <1>6, <1>9, <1>10, Zenon DEF to, f, l, n

LEMMA KeepsIsPlaced ==
  ASSUME NEW it, Placed(it), Good(it), NEW b, Follows(it.first, b, it.last)
  PROVE  LET to == [it EXCEPT !.skip = b]
         IN  Placed(to) /\ to.first = it.first /\ to.last = it.last /\ to.skip = b /\ b # 0
<1> DEFINE f == it.first
           l == it.last
           h == Hi(l)
           to == [it EXCEPT !.skip = b]
<1>1. /\ it \in Iter /\ Reads(l) /\ (doc.parts <= 1 => l = End) /\ f \in Lo .. h
      /\ f \in Elements /\ f + 1 \in Lo .. h /\ f \in 1 .. End - 1 /\ f # h
  BY GoodIsBeforeEnd DEF Placed
<1>2. Lo \in Nat /\ Lo >= 1 /\ h \in Lo .. l /\ l \in 1 .. End /\ End \in Nat
  BY <1>1, ListFacts
<1>3. b \in f + 1 .. h /\ \A r \in f + 1 .. b - 1 : r \notin Elements
  BY DEF Follows
<1>4. to.first = f /\ to.last = l /\ to.skip = b /\ to = [first |-> f, last |-> l, skip |-> b]
  BY <1>1 DEF Iter
<1> HIDE DEF f, l, h, to
<1>5. f \in Nat /\ l \in Nat /\ b \in Nat /\ b # 0
  BY <1>1, <1>2, <1>3
<1>6. to \in Iter
  BY <1>4, <1>5 DEF Iter
<1>7. Placed(to)
  BY <1>1, <1>3, <1>4, <1>6 DEF Placed, h
<1> QED
  BY <1>4, <1>5, <1>7, Zenon DEF to, f, l

LEMMA StaysAtElement ==
  ASSUME NEW it, Placed(it), Good(it)
  PROVE  NextMember(it.first, it.last) = it.first
<1> DEFINE p == it.first
           l == it.last
           q == Trim(p, l)
<1>1. /\ Reads(l) /\ p \in ValuesAt /\ p + 1 \in Lo .. Hi(l) /\ p \in 1 .. End - 1 /\ p \in Lo .. Hi(l)
  BY GoodIsBeforeEnd DEF Placed
<1>2. Lo \in Nat /\ Lo >= 1 /\ Hi(l) \in Lo .. l /\ l \in 1 .. End /\ End \in Nat
  BY <1>1, ListFacts
<1> DEFINE h == Hi(l)
<1>3. p \in 1 .. l /\ p # l /\ doc \in Docs
  <2>1. doc \in Docs
    BY <1>1 DEF Reads
  <2>2. Lo \in Nat /\ Lo >= 1 /\ h \in Lo .. l /\ l \in Nat /\ p + 1 \in Lo .. h /\ p \in Lo .. h
    BY <1>1, <1>2
  <2> HIDE DEF p, l, h
  <2> QED
    BY <2>1, <2>2
<1>4. /\ q \in p .. l /\ \A r \in p .. q - 1 : r \in SpacesAt
  BY <1>2, <1>3, TrimFacts
<1>5. p \notin SpacesAt /\ p \notin CommasAt
  BY <1>1, KindsApart
<1>6. q = p
  <2> HIDE DEF p, l, q
  <2> QED
    BY <1>1, <1>2, <1>3, <1>4, <1>5
<1>7. Char(p, l) # ","
  BY <1>2, <1>3, <1>5, CharKinds
<1>8. NextMember(p, l) = IF Char(q, l) = "," THEN Trim(q + 1, l) ELSE q
  BY DEF NextMember
<1> HIDE DEF p, l, q
<1> QED
  BY <1>6, <1>7, <1>8, Zenon DEF p, l

(***************************************************************************)
(* Every step keeps the iterators in the list.                             *)
(***************************************************************************)
LEMMA IterInvNext ==
  ASSUME GivenWellWritten, CutInv, OpenInv, IterInv, Next
  PROVE  IterInv'
<1>1. doc \in Docs /\ WellWritten(doc) /\ pos \in 1 .. End /\ End \in Nat /\ End >= 1
  BY TextFacts DEF OpenInv, GivenWellWritten
<1>2. CASE Search
  <2>1. phase' \in {"find", "name", "index", "found", "refused"}
    BY <1>1, <1>2, SearchBounds
  <2> QED
    BY <2>1 DEF IterInv
<1>3. CASE Cut \/ CutAll
  <2>1. phase' # "iterate"
    BY <1>3 DEF Cut, CutAll
  <2> QED
    BY <2>1 DEF IterInv
<1>4. CASE StartArray
  <2>1. CASE Char(pos, End) # "["
    <3>1. phase' # "iterate"
      BY <1>4, <2>1 DEF StartArray
    <3> QED
      BY <3>1 DEF IterInv
  <2>2. CASE Char(pos, End) = "["
    <3>1. /\ doc' = doc /\ pos' = pos /\ doc.form = "array" /\ its' \in [Iterators -> {New(pos + 1, End)}]
      BY <1>4, <2>2 DEF StartArray, Begin
    <3>2. CASE OnList
      <4>1. doc.list = pos /\ doc.list # 0 /\ doc.form # "lines"
        BY <1>1, <3>1, <3>2 DEF OnList
      <4>2. Reads(End)
        BY <1>1, <4>1 DEF Reads
      <4>3. Lo = pos + 1
        BY <3>1, <4>1 DEF Lo
      <4>4. Lo \in Lo .. Hi(End)
        <5>1. Lo \in Nat /\ Hi(End) \in Lo .. End /\ End \in Nat
          BY <4>2, ListFacts
        <5> HIDE DEF Lo
        <5> QED
          BY <5>1
      <4>5. Placed(New(pos + 1, End))
        BY <4>2, <4>3, <4>4, NewIsPlaced
      <4>6. New(pos + 1, End) \in Iter
        BY <4>5 DEF Placed
      <4>7. its' \in [Iterators -> Iter] /\ \A i \in Iterators : Placed(its'[i])
        BY <3>1, <4>5, <4>6
      <4> QED
        BY <3>1, <4>7, IterInvPrimed
    <3>3. CASE ~ OnList
      <4>1. ~ OnList'
        BY <3>1, <3>3 DEF OnList
      <4> QED
        BY <4>1 DEF IterInv
    <3> QED
      BY <3>2, <3>3
  <2> QED
    BY <2>1, <2>2
<1>5. CASE StartLines
  <2>1. /\ doc' = doc /\ phase = "found" /\ doc.form = "lines"
        /\ its' \in [Iterators -> {New(ranges[k].first, ranges[k].last) : k \in DOMAIN ranges}]
    BY <1>5 DEF StartLines, Begin
  <2>2. ASSUME NEW k \in DOMAIN ranges PROVE Placed(New(ranges[k].first, ranges[k].last))
    <3>1. /\ ranges[k].first \in 1 .. ranges[k].last /\ Reads(ranges[k].last)
          /\ doc.parts <= 1 => ranges[k].last = End
      BY <2>1, PartReads
    <3>2. ranges[k].first \in Lo .. Hi(ranges[k].last)
      BY <2>1, <3>1 DEF Lo, Hi
    <3> QED
      BY <2>1, <3>1, <3>2, NewIsPlaced
  <2>3. ASSUME NEW i \in Iterators PROVE Placed(its'[i])
    <3>1. PICK k \in DOMAIN ranges : its'[i] = New(ranges[k].first, ranges[k].last)
      BY <2>1
    <3> QED
      BY <2>2, <3>1
  <2>4. its' \in [Iterators -> Iter]
    BY <2>1, <2>3 DEF Placed
  <2> QED
    BY <2>1, <2>3, <2>4, IterInvPrimed
<1>6. ASSUME NEW i \in Iterators, NEW j \in Iterators, Dereference(i) \/ Step(i) \/ Copy(i, j)
      PROVE  IterInv'
  <2>1. doc' = doc /\ pos' = pos /\ phase = "iterate"
    BY <1>6 DEF Dereference, Step, Copy
  <2>2. CASE OnList
    <3>1. its \in [Iterators -> Iter] /\ \A x \in Iterators : Placed(its[x])
      BY <2>1, <2>2 DEF IterInv
    <3>2. ASSUME its' = its PROVE IterInv'
      BY <2>1, <3>1, <3>2, IterInvPrimed
    <3>3. ASSUME NEW x \in Iterators, NEW to, Placed(to), its' = [its EXCEPT ![x] = to] PROVE IterInv'
      <4>1. to \in Iter
        BY <3>3 DEF Placed
      <4>2. its' \in [Iterators -> Iter] /\ \A y \in Iterators : Placed(its'[y])
        BY <3>1, <3>3, <4>1
      <4> QED
        BY <2>1, <4>2, IterInvPrimed
    <3> DEFINE it == its[i]
    <3>4. Placed(it) /\ it \in Iter
      BY <3>1
    <3>5. CASE Dereference(i)
      <4>1. CASE Good(it) /\ Parsed(it) # 0
        <5> DEFINE to == [it EXCEPT !.skip = Parsed(it)]
        <5>1. its' = [its EXCEPT ![i] = to]
          BY <3>1, <3>5, <4>1 DEF Dereference
        <5>2. Placed(to)
          BY <3>4, <4>1, ParsedSuits, KeepsIsPlaced
        <5> HIDE DEF to
        <5> QED
          BY <3>3, <5>1, <5>2
      <4>2. CASE ~ (Good(it) /\ Parsed(it) # 0)
        BY <3>2, <3>5, <4>2 DEF Dereference
      <4> QED
        BY <4>1, <4>2
    <3>6. CASE Step(i)
      <4> DEFINE behind == IF it.skip # 0 THEN it.skip ELSE Passed(it)
                 to == [it EXCEPT !.first = NextMember(behind, it.last), !.skip = 0]
      <4>1. CASE Good(it) /\ behind # 0
        <5>1. its' = [its EXCEPT ![i] = to]
          BY <3>1, <3>6, <4>1 DEF Step
        <5>2. CASE Follows(it.first, behind, it.last)
          <6>1. Placed(to)
            BY <3>4, <4>1, <5>2, MovedIsPlaced
          <6> HIDE DEF to
          <6> QED
            BY <3>3, <5>1, <6>1
        <5>3. CASE it.skip = 0 /\ behind = it.first
          <6>1. NextMember(it.first, it.last) = it.first
            BY <3>4, <4>1, StaysAtElement
          <6>2. to = it
            <7>1. to = [it EXCEPT !.first = it.first, !.skip = it.skip]
              BY <5>3, <6>1
            <7> QED
              BY <3>4, <7>1 DEF Iter
          <6>3. its' = its
            BY <3>1, <5>1, <6>2
          <6> QED
            BY <3>2, <6>3
        <5>4. Follows(it.first, behind, it.last) \/ (it.skip = 0 /\ behind = it.first)
          <6>1. CASE it.skip # 0
            BY <3>4, <6>1 DEF Placed, Follows
          <6>2. CASE it.skip = 0
            BY <3>4, <4>1, <6>2, PassedFacts
          <6> QED
            BY <6>1, <6>2
        <5> QED
          BY <5>2, <5>3, <5>4
      <4>2. CASE ~ (Good(it) /\ behind # 0)
        <5>1. its' = its
          BY <3>6, <4>2 DEF Step
        <5> QED
          BY <3>2, <5>1
      <4> QED
        BY <4>1, <4>2
    <3>7. CASE Copy(i, j)
      <4>1. its' = [its EXCEPT ![j] = it]
        BY <3>7 DEF Copy
      <4> HIDE DEF it
      <4> QED
        BY <3>3, <3>4, <4>1
    <3> QED
      BY <1>6, <3>5, <3>6, <3>7
  <2>3. CASE ~ OnList
    <3>1. ~ OnList'
      BY <2>1, <2>3 DEF OnList
    <3> QED
      BY <3>1 DEF IterInv
  <2> QED
    BY <2>2, <2>3
<1> QED
  BY <1>2, <1>3, <1>4, <1>5, <1>6 DEF Next, Open
LEMMA IterInvStutters ==
  ASSUME IterInv, UNCHANGED vars
  PROVE  IterInv'
<1>1. doc' = doc /\ pos' = pos /\ phase' = phase /\ its' = its
  BY DEF vars
<1>2. CASE phase = "iterate" /\ OnList
  BY <1>1, <1>2, IterInvPrimed DEF IterInv
<1>3. CASE ~ (phase = "iterate" /\ OnList)
  BY <1>1, <1>3 DEF IterInv, OnList
<1> QED
  BY <1>2, <1>3

DocInv == CutInv /\ OpenInv /\ IterInv

LEMMA DocInvHolds ==
  ASSUME GivenWellWritten
  PROVE  Spec => []DocInv
<1>1. Init => DocInv
  BY CutInvInit, OpenInvInit DEF DocInv
<1>2. DocInv /\ [Next]_vars => DocInv'
  <2> SUFFICES ASSUME DocInv, [Next]_vars PROVE DocInv'
    OBVIOUS
  <2>1. CutInv' /\ OpenInv'
    BY CutInvNext, OpenInvNext DEF DocInv
  <2>2. IterInv'
    BY IterInvNext, IterInvStutters DEF DocInv
  <2> QED
    BY <2>1, <2>2 DEF DocInv
<1> QED
  BY <1>1, <1>2, PTL DEF Spec

-----------------------------------------------------------------------------
(* Counting brackets.                                                      *)

Lefts == {p \in 1 .. Len(doc.text) : doc.text[p] \in Left}
Rights == {p \in 1 .. Len(doc.text) : doc.text[p] \in Right}
Bal(c, q) == CountIn(Lefts, c, q) - CountIn(Rights, c, q)

(* How a text is counted by its reference.                                 *)
LEMMA BalanceIs ==
  ASSUME doc \in Docs, NEW c \in 1 .. Len(doc.text), NEW q \in c .. Len(doc.text)
  PROVE  /\ Balance(doc.text, c, q) = Bal(c, q) /\ Bal(c, q) \in Int
         /\ (Cardinality({x \in c .. q : doc.text[x] \in Left}) = Cardinality({x \in c .. q : doc.text[x] \in Right}))
              <=> Bal(c, q) = 0
<1> DEFINE l == Cardinality({x \in c .. q : doc.text[x] \in Left})
           r == Cardinality({x \in c .. q : doc.text[x] \in Right})
<1>1. Len(doc.text) \in Nat /\ c \in Int /\ q \in Int
  BY TextFacts
<1>2. {x \in c .. q : doc.text[x] \in Left} = Lefts \cap (c .. q)
  BY <1>1 DEF Lefts
<1>3. {x \in c .. q : doc.text[x] \in Right} = Rights \cap (c .. q)
  BY <1>1 DEF Rights
<1>4. l = CountIn(Lefts, c, q) /\ r = CountIn(Rights, c, q)
  BY <1>2, <1>3, Zenon DEF CountIn
<1>5. l \in Nat /\ r \in Nat
  BY <1>1, <1>4, CountType
<1>6. Balance(doc.text, c, q) = l - r
  BY Zenon DEF Balance
<1>7. Bal(c, q) = l - r
  BY <1>4, Zenon DEF Bal
<1> HIDE DEF l, r
<1>8. Bal(c, q) \in Int /\ (l = r <=> Bal(c, q) = 0)
  BY <1>5, <1>7
<1> QED
  BY <1>6, <1>7, <1>8 DEF l, r

LEMMA BalType ==
  ASSUME NEW c \in Int, NEW q \in Int
  PROVE  Bal(c, q) \in Int
<1>1. CountIn(Lefts, c, q) \in Nat /\ CountIn(Rights, c, q) \in Nat
  BY CountType
<1> QED
  BY <1>1 DEF Bal

(* One bracket more.                                                       *)
LEMMA BalStep ==
  ASSUME NEW c \in Int, NEW q \in Int, c <= q + 1
  PROVE  /\ q + 1 \in Lefts => Bal(c, q + 1) = Bal(c, q) + 1
         /\ q + 1 \in Rights => Bal(c, q + 1) = Bal(c, q) - 1
         /\ q + 1 \notin Lefts \cup Rights => Bal(c, q + 1) = Bal(c, q)
<1>1. Lefts \cap Rights = {}
  BY DEF Lefts, Rights, Left, Right
<1> DEFINE a == CountIn(Lefts, c, q)
           b == CountIn(Rights, c, q)
           aa == CountIn(Lefts, c, q + 1)
           bb == CountIn(Rights, c, q + 1)
<1>2. a \in Nat /\ b \in Nat
  BY CountType
<1>3. aa = a + (IF q + 1 \in Lefts THEN 1 ELSE 0) /\ bb = b + (IF q + 1 \in Rights THEN 1 ELSE 0)
  BY CountLast
<1>4. Bal(c, q) = a - b /\ Bal(c, q + 1) = aa - bb
  BY DEF Bal
<1> HIDE DEF a, b, aa, bb
<1> QED
  BY <1>1, <1>2, <1>3, <1>4

LEMMA BalSplit ==
  ASSUME NEW c \in Int, NEW q \in Int, NEW r \in Int, c <= q + 1, q <= r
  PROVE  Bal(c, r) = Bal(c, q) + Bal(q + 1, r)
<1> DEFINE a == CountIn(Lefts, c, q)
           b == CountIn(Rights, c, q)
           aa == CountIn(Lefts, q + 1, r)
           bb == CountIn(Rights, q + 1, r)
           x == CountIn(Lefts, c, r)
           y == CountIn(Rights, c, r)
<1>1. q + 1 \in Int
  OBVIOUS
<1>2. a \in Nat /\ b \in Nat /\ aa \in Nat /\ bb \in Nat
  BY <1>1, CountType
<1>3. x = a + aa /\ y = b + bb
  BY CountSplit
<1>4. Bal(c, q) = a - b /\ Bal(q + 1, r) = aa - bb /\ Bal(c, r) = x - y
  BY DEF Bal
<1> HIDE DEF a, b, aa, bb, x, y
<1> QED
  BY <1>2, <1>3, <1>4

(* Where no bracket is, nothing changes.                                   *)
LEMMA BalFlat ==
  ASSUME NEW c \in Int, NEW q \in Int, NEW r \in Int, c <= q + 1, q <= r,
         \A x \in q + 1 .. r : x \notin Lefts \cup Rights
  PROVE  Bal(c, r) = Bal(c, q)
<1>1. q + 1 \in Int /\ Lefts \cap (q + 1 .. r) = {} /\ Rights \cap (q + 1 .. r) = {}
  OBVIOUS
<1>2. CountIn(Lefts, q + 1, r) = 0 /\ CountIn(Rights, q + 1, r) = 0
  BY <1>1, CountNone
<1>3. Bal(q + 1, r) = 0
  BY <1>2 DEF Bal
<1>4. Bal(c, r) = Bal(c, q) + Bal(q + 1, r) /\ Bal(c, q) \in Int
  BY BalSplit, BalType
<1> QED
  BY <1>3, <1>4

LEMMA BalOne ==
  ASSUME doc \in Docs, NEW c \in Lefts
  PROVE  c \in Int /\ Bal(c, c) = 1
<1>1. c \in Int
  BY TextFacts DEF Lefts
<1>3. c \notin Rights
  BY DEF Lefts, Rights, Left, Right
<1>2. CountIn(Lefts, c, c) = 1 /\ CountIn(Rights, c, c) = 0
  BY <1>1, <1>3, CountOne
<1> QED
  BY <1>1, <1>2 DEF Bal

(* What is directly in a container.                                        *)
LEMMA InIs ==
  ASSUME doc \in Docs, NEW c \in 1 .. Len(doc.text), NEW p
  PROVE  p \in In(doc.text, c) <=>
           /\ p \in 1 .. Len(doc.text) /\ doc.text[p] \notin Space /\ c < p
           /\ Bal(c, p - 1) = 1 /\ \A q \in c .. p - 1 : Bal(c, q) > 0
<1>1. Len(doc.text) \in Nat /\ DOMAIN doc.text = 1 .. Len(doc.text)
  BY TextFacts
<1>2. p \in In(doc.text, c) <=>
        /\ p \in 1 .. Len(doc.text) /\ doc.text[p] \notin Space /\ c < p
        /\ Balance(doc.text, c, p - 1) = 1 /\ \A q \in c .. p - 1 : Balance(doc.text, c, q) > 0
  BY <1>1 DEF In, Tokens
<1> SUFFICES ASSUME p \in 1 .. Len(doc.text), c < p
             PROVE  /\ Balance(doc.text, c, p - 1) = Bal(c, p - 1)
                    /\ \A q \in c .. p - 1 : Balance(doc.text, c, q) = Bal(c, q)
  BY <1>2
<1>3. p - 1 \in c .. Len(doc.text) /\ \A q \in c .. p - 1 : q \in c .. Len(doc.text)
  BY <1>1
<1> QED
  BY <1>3, BalanceIs

-----------------------------------------------------------------------------
(* The bracket that closes a container.                                    *)

(* The value that begins with a bracket ends where the brackets are even.  *)
LEMMA ClosingIs ==
  ASSUME doc \in Docs, IsJSON(doc.text), NEW c \in Lefts
  PROVE  \E q \in c + 1 .. Len(doc.text) :
           /\ ClosingFrom(c) = q + 1 /\ q \in Rights /\ Bal(c, q) = 0
           /\ \A r \in c .. q - 1 : Bal(c, r) > 0
<1>1. Len(doc.text) \in Nat /\ c \in 1 .. Len(doc.text) /\ c \in DOMAIN doc.text /\ doc.text[c] \in Left
  BY TextFacts DEF Lefts
<1> DEFINE some(brackets, q) == Cardinality({x \in c .. q : doc.text[x] \in brackets})
           ends == {q \in c .. Len(doc.text) : some(Left, q) = some(Right, q)}
           end == CHOOSE q \in ends : \A r \in ends : q <= r
<1>2. \A q \in c .. Len(doc.text) : q \in ends <=> Bal(c, q) = 0
  BY <1>1, BalanceIs
<1>3. PICK z \in c .. Len(doc.text) : Balance(doc.text, c, z) = 0
  BY <1>1 DEF IsJSON
<1>4. z \in ends
  BY <1>1, <1>2, <1>3, BalanceIs
<1>5. ends \subseteq c .. Len(doc.text)
  OBVIOUS
<1>6. ClosingFrom(c) = IF ends = {} THEN 0 ELSE end + 1
  BY DEF ClosingFrom
<1> HIDE DEF ends
<1>7. end \in ends /\ \A r \in ends : end <= r
  <2>1. ends \in SUBSET Nat
    BY <1>1, <1>5
  <2>2. \E q \in ends : \A r \in ends : q <= r
    BY <1>4, <2>1, LeastExists
  <2> QED
    BY <2>2
<1> HIDE DEF end
<1>8. end \in c .. Len(doc.text) /\ Bal(c, end) = 0 /\ Bal(c, c) = 1
  BY <1>2, <1>5, <1>7, BalOne
<1>9. end \in c + 1 .. Len(doc.text)
  BY <1>1, <1>8
<1> DEFINE Above == {r \in c .. end - 1 : Bal(c, r) > 0}
<1>10. \A r \in c .. end - 1 : r \in Above
  <2>1. c \in Above /\ c \in Nat /\ end - 1 \in Nat
    BY <1>1, <1>8, <1>9
  <2>2. ASSUME NEW r \in c + 1 .. end - 1, r - 1 \in Above PROVE r \in Above
    <3>1. /\ r - 1 \in Int /\ c <= (r - 1) + 1 /\ (r - 1) + 1 = r /\ c \in Int
          /\ r \in c .. Len(doc.text) /\ ~ (end <= r) /\ r \in c .. end - 1
      BY <1>1, <1>9
    <3>2. Bal(c, r) # 0
      BY <1>2, <1>7, <3>1
    <3>3. Bal(c, r - 1) > 0 /\ Bal(c, r - 1) \in Int
      BY <2>2, <3>1, BalType
    <3>4. Bal(c, r) \in {Bal(c, r - 1) + 1, Bal(c, r - 1) - 1, Bal(c, r - 1)}
      BY <3>1, BalStep
    <3>5. Bal(c, r) > 0
      <4> DEFINE x == Bal(c, r)
                 y == Bal(c, r - 1)
      <4> HIDE DEF x, y
      <4>1. x # 0 /\ y > 0 /\ y \in Int /\ x \in {y + 1, y - 1, y}
        BY <3>2, <3>3, <3>4 DEF x, y
      <4>2. x > 0
        BY <4>1
      <4> QED
        BY <4>2 DEF x
    <3> QED
      BY <3>1, <3>5
  <2> HIDE DEF Above
  <2>3. \A r \in (c + 1) .. end - 1 : r - 1 \in Above => r \in Above
    BY <2>2
  <2> QED
    BY <2>1, <2>3, UpFrom
<1>11. end \in Rights
  <2>1. /\ end - 1 \in c .. end - 1 /\ end - 1 \in Int /\ c <= (end - 1) + 1 /\ (end - 1) + 1 = end /\ c \in Int
    BY <1>1, <1>9
  <2>2. Bal(c, end - 1) > 0 /\ Bal(c, end - 1) \in Int
    BY <1>10, <2>1, BalType
  <2>3. /\ end \in Lefts => Bal(c, end) = Bal(c, end - 1) + 1
        /\ end \notin Lefts \cup Rights => Bal(c, end) = Bal(c, end - 1)
    BY <2>1, BalStep
  <2>4. end \notin Lefts /\ ~ (end \notin Lefts \cup Rights)
    BY <1>8, <2>2, <2>3
  <2> QED
    BY <2>4
<1>12. ClosingFrom(c) = end + 1
  BY <1>4, <1>6
<1> QED
  BY <1>8, <1>9, <1>10, <1>11, <1>12

-----------------------------------------------------------------------------
(* From one token of a container to the next.                              *)

(* The token in front of one.                                              *)
LEMMA PrevIs ==
  ASSUME doc \in Docs, NEW p \in 1 .. Len(doc.text), NEW m \in 0 .. p - 1,
         m # 0 => doc.text[m] \notin Space, \A x \in m + 1 .. p - 1 : x \in SpacesAt
  PROVE  Prev(doc.text, p) = m
<1> DEFINE q == {x \in Tokens(doc.text) : x < p}
<1>1. Len(doc.text) \in Nat /\ DOMAIN doc.text = 1 .. Len(doc.text)
  BY TextFacts
<1>2. Prev(doc.text, p) = IF q = {} THEN 0 ELSE CHOOSE x \in q : \A y \in q : y <= x
  BY DEF Prev
<1>3. ASSUME NEW x \in q PROVE x \in 1 .. m
  <2>1. x \in 1 .. p - 1 /\ doc.text[x] \notin Space
    BY <1>1, <1>3 DEF Tokens
  <2>2. x \notin m + 1 .. p - 1
    BY <2>1 DEF SpacesAt
  <2> QED
    BY <1>1, <2>1, <2>2
<1>4. CASE m = 0
  <2>1. q = {}
    BY <1>3, <1>4
  <2> QED
    BY <1>2, <1>4, <2>1
<1>5. CASE m # 0
  <2>1. m \in q
    BY <1>1, <1>5 DEF Tokens
  <2> HIDE DEF q
  <2>2. \A y \in q : y <= m /\ y \in Nat
    BY <1>3
  <2>3. \A x \in q : (\A y \in q : y <= x) <=> x = m
    BY <1>1, <2>1, <2>2
  <2> QED
    BY <1>2, <2>1, <2>3
<1> QED
  BY <1>4, <1>5

(* Where one token of a container, or what it begins, has ended, the next  *)
(* token is in the same container, and may be there.                       *)
LEMMA NextIn ==
  ASSUME doc \in Docs, IsJSON(doc.text), NEW c \in Lefts, NEW q \in c .. Len(doc.text),
         doc.text[q] \notin Space, Bal(c, q) = 1, \A r \in c .. q : Bal(c, r) > 0
  PROVE  LET t == Trim(q + 1, End)
         IN /\ t \in q + 1 .. Len(doc.text) /\ t \in In(doc.text, c) /\ Char(t, End) = doc.text[t]
            /\ Prev(doc.text, t) = q /\ Fits(doc.text[c], doc.text[q], doc.text[t])
            /\ \A x \in q + 1 .. t - 1 : x \in SpacesAt
<1> DEFINE t == Trim(q + 1, End)
<1>1. /\ End \in Nat /\ Len(doc.text) = End - 1 /\ c \in 1 .. End - 1 /\ q \in 1 .. End - 1 /\ c <= q
      /\ q + 1 \in 1 .. End /\ End \in 1 .. End /\ c \in DOMAIN doc.text /\ doc.text[c] \in Left
  BY TextFacts DEF Lefts
<1>2. t \in q + 1 .. End /\ (t = End \/ t \notin SpacesAt) /\ \A r \in q + 1 .. t - 1 : r \in SpacesAt
  BY <1>1, TrimFacts
<1> HIDE DEF t
<1>3. ASSUME NEW r \in q + 1 .. t - 1 PROVE Bal(c, r) = 1
  <2>1. \A x \in q + 1 .. r : x \in SpacesAt
    BY <1>1, <1>2, <1>3
  <2>2. \A x \in q + 1 .. r : x \notin Lefts \cup Rights
    BY <2>1 DEF SpacesAt, Space, Lefts, Rights, Left, Right
  <2>3. c \in Int /\ q \in Int /\ r \in Int /\ c <= q + 1 /\ q <= r
    BY <1>1, <1>2, <1>3
  <2> QED
    BY <2>2, <2>3, BalFlat
<1>4. t # End
  <2>1. PICK z \in c .. Len(doc.text) : Balance(doc.text, c, z) = 0
    BY <1>1 DEF IsJSON
  <2>2. Bal(c, z) = 0
    BY <1>1, <2>1, BalanceIs
  <2>3. ~ (z \in c .. q)
    BY <2>2
  <2>4. ~ (z \in q + 1 .. t - 1)
    BY <1>3, <2>2
  <2> QED
    BY <1>1, <2>3, <2>4
<1>5. t \in q + 1 .. Len(doc.text) /\ t \in 1 .. Len(doc.text) /\ c < t /\ t \in Nat /\ q \in 0 .. t - 1 /\ t < End
  BY <1>1, <1>2, <1>4
<1>6. doc.text[t] \notin Space
  BY <1>2, <1>4, <1>5 DEF SpacesAt
<1>7. Bal(c, t - 1) = 1 /\ \A r \in c .. t - 1 : Bal(c, r) > 0
  <2>1. \A r \in c .. t - 1 : r \in c .. q \/ r \in q + 1 .. t - 1
    BY <1>1, <1>5
  <2>2. \A r \in c .. t - 1 : Bal(c, r) > 0
    <3>1. \A r \in q + 1 .. t - 1 : Bal(c, r) > 0
      BY <1>3
    <3> QED
      BY <2>1, <3>1
  <2>3. t - 1 = q \/ t - 1 \in q + 1 .. t - 1
    BY <1>1, <1>5
  <2> QED
    BY <1>3, <2>2, <2>3
<1>8. t \in In(doc.text, c)
  BY <1>1, <1>5, <1>6, <1>7, InIs
<1>9. Prev(doc.text, t) = q
  BY <1>2, <1>5, PrevIs
<1>10. Fits(doc.text[c], doc.text[q], doc.text[t])
  BY <1>1, <1>8, <1>9, Zenon DEF IsJSON
<1>11. Char(t, End) = doc.text[t]
  BY <1>5 DEF Char
<1> QED
  BY <1>2, <1>5, <1>8, <1>9, <1>10, <1>11 DEF t

(* Nothing of a container is behind the bracket that closes it.            *)
LEMMA NothingBehind ==
  ASSUME doc \in Docs, NEW c \in Lefts, NEW p \in In(doc.text, c), doc.text[p] \in Right, NEW x \in In(doc.text, c)
  PROVE  x <= p
<1>1. c \in 1 .. Len(doc.text) /\ Len(doc.text) \in Nat
  BY TextFacts DEF Lefts
<1>2. p \in 1 .. Len(doc.text) /\ c < p /\ Bal(c, p - 1) = 1
  BY <1>1, InIs
<1>3. x \in 1 .. Len(doc.text) /\ \A q \in c .. x - 1 : Bal(c, q) > 0
  BY <1>1, InIs
<1>4. p \in Rights /\ (p - 1) + 1 = p /\ p - 1 \in Int /\ c \in Int /\ c <= (p - 1) + 1
  BY <1>1, <1>2 DEF Rights
<1>5. Bal(c, p) = 0
  <2>1. Bal(c, (p - 1) + 1) = Bal(c, p - 1) - 1
    BY <1>4, BalStep
  <2> QED
    BY <1>2, <1>4, <2>1
<1>6. p \notin c .. x - 1
  BY <1>3, <1>5
<1> QED
  BY <1>1, <1>2, <1>3, <1>6

(* Where what a token begins has ended.                                    *)
LEMMA ItemEnds ==
  ASSUME doc \in Docs, IsJSON(doc.text), NEW c \in Lefts, NEW p \in In(doc.text, c), doc.text[p] \notin Right
  PROVE  \E q \in p .. Len(doc.text) :
           /\ doc.text[q] \notin Space /\ Bal(c, q) = 1 /\ \A r \in c .. q : Bal(c, r) > 0
           /\ \A x \in p + 1 .. q : x \notin In(doc.text, c)
           /\ IF doc.text[p] \in Left THEN ClosingFrom(p) = q + 1 /\ doc.text[q] \in Right ELSE q = p
<1>1. c \in 1 .. Len(doc.text) /\ Len(doc.text) \in Nat
  BY TextFacts DEF Lefts
<1>2. /\ p \in 1 .. Len(doc.text) /\ doc.text[p] \notin Space /\ c < p
      /\ Bal(c, p - 1) = 1 /\ \A q \in c .. p - 1 : Bal(c, q) > 0
  BY <1>1, InIs
<1>3. CASE doc.text[p] \notin Left
  <2>1. p \notin Lefts \cup Rights /\ (p - 1) + 1 = p /\ p - 1 \in Int /\ c \in Int /\ c <= (p - 1) + 1
    BY <1>1, <1>2, <1>3 DEF Lefts, Rights
  <2>2. Bal(c, p) = 1
    <3>1. Bal(c, (p - 1) + 1) = Bal(c, p - 1)
      BY <2>1, BalStep
    <3> QED
      BY <1>2, <2>1, <3>1
  <2>3. \A r \in c .. p : r = p \/ r \in c .. p - 1
    BY <1>1, <1>2
  <2>4. \A r \in c .. p : Bal(c, r) > 0
    BY <1>2, <2>2, <2>3
  <2>5. p \in p .. Len(doc.text) /\ \A x \in p + 1 .. p : FALSE
    BY <1>1, <1>2
  <2> QED
    BY <1>2, <1>3, <2>2, <2>4, <2>5
<1>4. CASE doc.text[p] \in Left
  <2>1. p \in Lefts
    BY <1>2, <1>4 DEF Lefts
  <2>2. PICK q \in p + 1 .. Len(doc.text) :
           /\ ClosingFrom(p) = q + 1 /\ q \in Rights /\ Bal(p, q) = 0
           /\ \A r \in p .. q - 1 : Bal(p, r) > 0
    BY <2>1, ClosingIs
  <2>3. ASSUME NEW r \in p .. q PROVE Bal(c, r) = 1 + Bal(p, r) /\ Bal(p, r) \in Int
    <3>1. c \in Int /\ p - 1 \in Int /\ r \in Int /\ p \in Int /\ c <= (p - 1) + 1 /\ p - 1 <= r /\ (p - 1) + 1 = p
      BY <1>1, <1>2, <2>2, <2>3
    <3>2. Bal(c, r) = Bal(c, p - 1) + Bal((p - 1) + 1, r)
      BY <3>1, BalSplit
    <3>3. Bal(p, r) \in Int
      BY <3>1, BalType
    <3> QED
      BY <1>2, <3>1, <3>2, <3>3
  <2>4. q \in p .. q /\ q \in p .. Len(doc.text) /\ q \in Nat
    BY <1>1, <1>2, <2>2
  <2>5. Bal(c, q) = 1
    BY <2>2, <2>3, <2>4
  <2>6. \A r \in p .. q - 1 : Bal(c, r) > 1
    <3>1. \A r \in p .. q - 1 : r \in p .. q
      BY <1>1, <1>2, <2>2
    <3> QED
      BY <2>2, <2>3, <3>1
  <2>7. \A r \in c .. q : r = q \/ r \in c .. p - 1 \/ r \in p .. q - 1
    BY <1>1, <1>2, <2>2
  <2>8. \A r \in c .. q : Bal(c, r) > 0
    <3>1. \A r \in p .. q - 1 : Bal(c, r) > 0
      <4> SUFFICES ASSUME NEW r \in p .. q - 1 PROVE Bal(c, r) > 0
        OBVIOUS
      <4>1. r \in p .. q
        BY <1>1, <1>2, <2>2
      <4> QED
        BY <2>3, <2>6, <4>1
    <3> QED
      BY <1>2, <2>5, <2>7, <3>1
  <2>9. ASSUME NEW x \in p + 1 .. q, x \in In(doc.text, c) PROVE FALSE
    <3>1. Bal(c, x - 1) = 1
      BY <1>1, <2>9, InIs
    <3>2. x - 1 \in p .. q - 1
      BY <1>1, <1>2, <2>4
    <3> QED
      BY <2>6, <3>1, <3>2
  <2>10. doc.text[q] \in Right /\ doc.text[q] \notin Space
    BY <2>2 DEF Rights, Right, Space
  <2> QED
    BY <1>4, <2>2, <2>4, <2>5, <2>8, <2>9, <2>10
<1> QED
  BY <1>3, <1>4

(* What may be behind the bracket, a name, a colon, a value, a comma.      *)
LEMMA FollowsFirst ==
  ASSUME NEW o \in Left, NEW t, Fits(o, o, t)
  PROVE  t = Partner(o) \/ t \in IF o = "[" THEN Starts ELSE Names
BY DEF Fits, Left, Right, Values, Names
LEMMA FollowsName ==
  ASSUME NEW o \in Left, NEW b \in Names, NEW t, Fits(o, b, t)
  PROVE  t = ":"
BY DEF Fits, Left, Right, Values, Names
LEMMA FollowsColon ==
  ASSUME NEW o \in Left, NEW t, Fits(o, ":", t)
  PROVE  t \in Starts
BY DEF Fits, Left, Right, Values, Names
LEMMA FollowsValue ==
  ASSUME NEW o \in Left, NEW b \in Values \cup Right, NEW t, Fits(o, b, t)
  PROVE  t = "," \/ t = Partner(o)
BY DEF Fits, Left, Right, Values, Names
LEMMA FollowsComma ==
  ASSUME NEW o \in Left, NEW t, Fits(o, ",", t)
  PROVE  t \in IF o = "[" THEN Starts ELSE Names
BY DEF Fits, Left, Right, Values, Names

(* The first thing in a container.                                         *)
LEMMA FirstIn ==
  ASSUME doc \in Docs, IsJSON(doc.text), NEW c \in Lefts
  PROVE  LET t == Trim(c + 1, End)
         IN /\ t \in In(doc.text, c) /\ Char(t, End) = doc.text[t] /\ t \in 1 .. Len(doc.text)
            /\ \A x \in In(doc.text, c) : ~ (x < t)
            /\ \/ doc.text[t] = Partner(doc.text[c])
               \/ doc.text[t] \in IF doc.text[c] = "[" THEN Starts ELSE Names
<1> DEFINE t == Trim(c + 1, End)
<1>1. c \in 1 .. Len(doc.text) /\ Len(doc.text) \in Nat /\ c \in c .. Len(doc.text) /\ doc.text[c] \in Left
  BY TextFacts DEF Lefts
<1>2. doc.text[c] \notin Space /\ Bal(c, c) = 1
  BY <1>1, BalOne DEF Space, Left
<1>3. \A r \in c .. c : Bal(c, r) > 0
  <2>1. \A r \in c .. c : r = c
    BY <1>1
  <2> QED
    BY <1>2, <2>1
<1>4. /\ t \in c + 1 .. Len(doc.text) /\ t \in In(doc.text, c) /\ Char(t, End) = doc.text[t]
      /\ Fits(doc.text[c], doc.text[c], doc.text[t])
      /\ \A x \in c + 1 .. t - 1 : x \in SpacesAt
  BY <1>1, <1>2, <1>3, NextIn
<1> HIDE DEF t
<1>5. ASSUME NEW x \in In(doc.text, c), x < t PROVE FALSE
  <2>1. x \in 1 .. Len(doc.text) /\ doc.text[x] \notin Space /\ c < x
    BY <1>1, InIs
  <2>2. x \in c + 1 .. t - 1
    BY <1>1, <1>4, <1>5, <2>1
  <2> QED
    BY <1>4, <2>1, <2>2 DEF SpacesAt
<1>6. \/ doc.text[t] = Partner(doc.text[c])
      \/ doc.text[t] \in IF doc.text[c] = "[" THEN Starts ELSE Names
  BY <1>1, <1>4, FollowsFirst
<1>7. t \in 1 .. Len(doc.text)
  BY <1>1, <1>4
<1> QED
  BY <1>4, <1>5, <1>6, <1>7 DEF t

(* What is in a container is in the text.                                  *)
LEMMA InText ==
  ASSUME doc \in Docs, NEW c \in Lefts, NEW p \in In(doc.text, c)
  PROVE  /\ c \in 1 .. Len(doc.text) /\ doc.text[c] \in Left /\ p \in 1 .. Len(doc.text) /\ c < p
         /\ Char(p, End) = doc.text[p] /\ doc.text[p] \notin Space /\ p \in 1 .. End /\ End \in Nat
<1>1. c \in 1 .. Len(doc.text) /\ doc.text[c] \in Left /\ Len(doc.text) = End - 1 /\ End \in Nat
  BY TextFacts DEF Lefts
<1>2. p \in 1 .. Len(doc.text) /\ doc.text[p] \notin Space /\ c < p
  BY <1>1, InIs
<1> QED
  BY <1>1, <1>2 DEF Char

(* A token is not passed as white space.                                   *)
LEMMA TrimSelf ==
  ASSUME doc \in Docs, NEW p \in 1 .. Len(doc.text), doc.text[p] \notin Space
  PROVE  Trim(p, End) = p
<1>1. p \in 1 .. End /\ End \in 1 .. End /\ End \in Nat /\ p \in Nat
  BY TextFacts
<1>2. Trim(p, End) \in p .. End /\ \A r \in p .. Trim(p, End) - 1 : r \in SpacesAt
  BY <1>1, TrimFacts
<1>3. p \notin SpacesAt
  BY DEF SpacesAt
<1>4. ~ (p <= Trim(p, End) - 1)
  BY <1>1, <1>2, <1>3
<1> QED
  BY <1>1, <1>2, <1>4

(* Behind a value is a comma or the bracket that closes the container.     *)
LEMMA BehindItem ==
  ASSUME doc \in Docs, IsJSON(doc.text), NEW c \in Lefts, NEW p \in In(doc.text, c), doc.text[p] \in Starts
  PROVE  LET e == Behind(p, End)
             t == Trim(e, End)
         IN /\ e \in 1 .. End /\ e # 0 /\ t \in In(doc.text, c) /\ p < t
            /\ doc.text[t] = "," \/ doc.text[t] = Partner(doc.text[c])
            /\ \A x \in In(doc.text, c) : ~ (p < x /\ x < t)
<1> DEFINE e == Behind(p, End)
<1>1. /\ c \in 1 .. Len(doc.text) /\ doc.text[c] \in Left /\ p \in 1 .. Len(doc.text) /\ c < p
      /\ Char(p, End) = doc.text[p] /\ Len(doc.text) = End - 1 /\ End \in Nat
  BY InText, TextFacts
<1>2. doc.text[p] \notin Right
  BY DEF Starts, Values, Left, Right
<1>3. PICK q \in p .. Len(doc.text) :
           /\ doc.text[q] \notin Space /\ Bal(c, q) = 1 /\ \A r \in c .. q : Bal(c, r) > 0
           /\ \A x \in p + 1 .. q : x \notin In(doc.text, c)
           /\ IF doc.text[p] \in Left THEN ClosingFrom(p) = q + 1 /\ doc.text[q] \in Right ELSE q = p
  BY <1>2, ItemEnds
<1> DEFINE u == Trim(q + 1, End)
<1>4. q \in c .. Len(doc.text)
  BY <1>1, <1>3
<1>5. /\ u \in q + 1 .. Len(doc.text) /\ u \in In(doc.text, c) /\ Char(u, End) = doc.text[u]
      /\ Fits(doc.text[c], doc.text[q], doc.text[u])
      /\ \A x \in q + 1 .. u - 1 : x \in SpacesAt
  BY <1>3, <1>4, NextIn
<1>6. doc.text[q] \in Values \cup Right
  BY <1>3 DEF Starts
<1>7. doc.text[u] = "," \/ doc.text[u] = Partner(doc.text[c])
  BY <1>1, <1>5, <1>6, FollowsValue
<1>8. Trim(u, End) = u
  <2>1. u \in 1 .. Len(doc.text) /\ doc.text[u] \notin Space
    BY <1>5, InText
  <2> QED
    BY <2>1, TrimSelf
<1>9. e = q + 1 \/ e = u
  <2>1. CASE doc.text[p] \in Left
    BY <1>1, <1>3, <2>1 DEF Behind, Left, Names
  <2>2. CASE doc.text[p] = "n"
    <3>1. q = p
      BY <1>3, <2>2 DEF Left
    <3>2. u \in p + 1 .. End - 1
      BY <1>1, <1>5, <3>1
    <3> HIDE DEF u
    <3>3. p + 1 < End
      BY <1>1, <3>2
    <3>4. e = p + 1
      BY <1>1, <2>2, <3>3 DEF Behind, Left
    <3> QED
      BY <3>1, <3>4
  <2>3. CASE doc.text[p] = "b"
    <3>1. q = p
      BY <1>3, <2>3 DEF Left
    <3>2. Char(u, End) \in {",", "}", "]", NUL}
      BY <1>5, <1>7 DEF Partner
    <3>3. u = Trim(p + 1, End)
      BY <3>1
    <3> HIDE DEF u
    <3>4. e = IF Char(u, End) \in {",", "}", "]", NUL} THEN u ELSE 0
      BY <1>1, <2>3, <3>3 DEF Behind, Left, Names
    <3>5. e = u
      BY <3>2, <3>4, Zenon
    <3> QED
      BY <3>5
  <2>4. CASE doc.text[p] \in {"s", "o"}
    <3>1. q = p
      BY <1>3, <2>4 DEF Left
    <3>2. e = p + 1
      BY <1>1, <2>4 DEF Behind, Left
    <3> QED
      BY <3>1, <3>2
  <2> QED
    BY <2>1, <2>2, <2>3, <2>4 DEF Starts, Values
<1>10. Trim(e, End) = u
  BY <1>8, <1>9
<1> HIDE DEF u, e
<1>11. e \in 1 .. End /\ e # 0 /\ p < u
  BY <1>1, <1>3, <1>5, <1>9
<1>12. ASSUME NEW x \in In(doc.text, c), p < x, x < u PROVE FALSE
  <2>1. x \in 1 .. Len(doc.text) /\ doc.text[x] \notin Space
    BY InText
  <2>2. x \in p + 1 .. q \/ x \in q + 1 .. u - 1
    BY <1>1, <1>3, <1>5, <1>12, <2>1
  <2> QED
    BY <1>3, <1>5, <2>1, <2>2 DEF SpacesAt
<1> QED
  BY <1>5, <1>7, <1>10, <1>11, <1>12 DEF e

(* Behind a comma is the next name, or value of an array.                  *)
LEMMA BehindMark ==
  ASSUME doc \in Docs, IsJSON(doc.text), NEW c \in Lefts, NEW p \in In(doc.text, c),
         doc.text[p] \notin Left, doc.text[p] \notin Right
  PROVE  LET t == Trim(p + 1, End)
         IN /\ t \in In(doc.text, c) /\ p < t /\ Prev(doc.text, t) = p
            /\ Fits(doc.text[c], doc.text[p], doc.text[t])
            /\ \A x \in In(doc.text, c) : ~ (p < x /\ x < t)
<1> DEFINE t == Trim(p + 1, End)
<1>1. c \in 1 .. Len(doc.text) /\ p \in 1 .. Len(doc.text) /\ c < p /\ Len(doc.text) \in Nat
  BY InText, TextFacts
<1>2. doc.text[p] \notin Space /\ Bal(c, p) = 1 /\ \A r \in c .. p : Bal(c, r) > 0
  BY ItemEnds
<1>3. /\ t \in p + 1 .. Len(doc.text) /\ t \in In(doc.text, c) /\ Prev(doc.text, t) = p
      /\ Fits(doc.text[c], doc.text[p], doc.text[t])
      /\ \A x \in p + 1 .. t - 1 : x \in SpacesAt
  <2>1. p \in c .. Len(doc.text)
    BY <1>1
  <2> QED
    BY <1>2, <2>1, NextIn
<1> HIDE DEF t
<1>4. ASSUME NEW x \in In(doc.text, c), p < x, x < t PROVE FALSE
  <2>1. x \in 1 .. Len(doc.text) /\ doc.text[x] \notin Space
    BY InText
  <2>2. x \in p + 1 .. t - 1
    BY <1>1, <1>3, <1>4, <2>1
  <2> QED
    BY <1>3, <2>1, <2>2 DEF SpacesAt
<1>5. p < t
  BY <1>1, <1>3
<1> QED
  BY <1>3, <1>4, <1>5 DEF t

(* A step over a value, with the comma behind it.                          *)
LEMMA NextItem ==
  ASSUME doc \in Docs, IsJSON(doc.text), NEW c \in Lefts, NEW p \in In(doc.text, c), doc.text[p] \in Starts
  PROVE  LET b == Behind(p, End)
             t == Trim(b, End)
             n == NextMember(b, End)
         IN /\ b # 0 /\ NextMember(t, End) = n /\ n \in In(doc.text, c) /\ p < n
            /\ t \in In(doc.text, c)
            /\ \/ doc.text[t] = Partner(doc.text[c]) /\ n = t
               \/ doc.text[t] = "," /\ doc.text[n] \in IF doc.text[c] = "[" THEN Starts ELSE Names
            /\ \A x \in In(doc.text, c) : p < x /\ x < n => doc.text[x] = ","
<1> DEFINE b == Behind(p, End)
           t == Trim(b, End)
           n == NextMember(b, End)
<1>1. /\ b \in 1 .. End /\ b # 0 /\ t \in In(doc.text, c) /\ p < t
      /\ doc.text[t] = "," \/ doc.text[t] = Partner(doc.text[c])
      /\ \A x \in In(doc.text, c) : ~ (p < x /\ x < t)
  BY BehindItem
<1> HIDE DEF b
<1>2. /\ c \in 1 .. Len(doc.text) /\ doc.text[c] \in Left /\ p \in 1 .. Len(doc.text) /\ Len(doc.text) \in Nat
      /\ t \in 1 .. Len(doc.text) /\ doc.text[t] \notin Space /\ Char(t, End) = doc.text[t]
  <2> HIDE DEF t
  <2>1. c \in 1 .. Len(doc.text) /\ doc.text[c] \in Left /\ p \in 1 .. Len(doc.text)
    BY InText
  <2>2. t \in In(doc.text, c)
    BY <1>1
  <2>3. t \in 1 .. Len(doc.text) /\ doc.text[t] \notin Space /\ Char(t, End) = doc.text[t]
    BY <2>2, InText
  <2> QED
    BY <2>1, <2>3, TextFacts
<1>3. Trim(t, End) = t
  BY <1>2, TrimSelf
<1>4. n = IF Char(t, End) = "," THEN Trim(t + 1, End) ELSE t
  BY DEF NextMember
<1>5. NextMember(t, End) = n
  BY <1>3, <1>4, Zenon DEF NextMember
<1> HIDE DEF t, n
<1>6. CASE doc.text[t] # ","
  BY <1>1, <1>2, <1>4, <1>5, <1>6 DEF b, t, n
<1>7. CASE doc.text[t] = ","
  <2>1. doc.text[t] \notin Left /\ doc.text[t] \notin Right /\ n = Trim(t + 1, End)
    BY <1>2, <1>4, <1>7 DEF Left, Right
  <2>2. /\ n \in In(doc.text, c) /\ t < n /\ Fits(doc.text[c], doc.text[t], doc.text[n])
        /\ \A x \in In(doc.text, c) : ~ (t < x /\ x < n)
    BY <1>1, <2>1, BehindMark
  <2>3. doc.text[n] \in IF doc.text[c] = "[" THEN Starts ELSE Names
    BY <1>2, <1>7, <2>2, FollowsComma
  <2>4. n \in 1 .. Len(doc.text)
    BY <2>2, InText
  <2>7. p \in Nat /\ t \in Nat /\ n \in Nat
    BY <1>2, <2>4
  <2>8. p < t /\ t < n
    BY <1>1, <2>2, Zenon
  <2>5. p < n
    BY <2>7, <2>8
  <2>6. ASSUME NEW x \in In(doc.text, c), p < x, x < n PROVE doc.text[x] = ","
    <3>1. x \in 1 .. Len(doc.text)
      BY InText
    <3>2. ~ (p < x /\ x < t) /\ ~ (t < x /\ x < n)
      BY <1>1, <2>2, Zenon
    <3>3. x = t
      BY <2>6, <2>7, <3>1, <3>2
    <3> QED
      BY <1>7, <3>3
  <2> QED
    BY <1>1, <1>5, <1>7, <2>2, <2>3, <2>5, <2>6 DEF b, t, n
<1> QED
  BY <1>6, <1>7

(* Behind a name are its colon and its value.                              *)
LEMMA NameItem ==
  ASSUME doc \in Docs, IsJSON(doc.text), NEW c \in Lefts, NEW p \in In(doc.text, c), doc.text[p] \in Names
  PROVE  LET colon == Trim(p + 1, End)
             v == Trim(colon + 1, End)
         IN /\ Char(colon, End) = ":" /\ v \in ElementsIn(doc.text, c) /\ p < v
            /\ Prev(doc.text, Prev(doc.text, v)) = p
            /\ \A x \in In(doc.text, c) : p < x /\ x < v => doc.text[x] = ":"
<1> DEFINE t == Trim(p + 1, End)
           v == Trim(t + 1, End)
<1>1. /\ c \in 1 .. Len(doc.text) /\ doc.text[c] \in Left /\ p \in 1 .. Len(doc.text) /\ Len(doc.text) \in Nat
  BY InText, TextFacts
<1>2. /\ t \in In(doc.text, c) /\ p < t /\ Prev(doc.text, t) = p
      /\ Fits(doc.text[c], doc.text[p], doc.text[t])
      /\ \A x \in In(doc.text, c) : ~ (p < x /\ x < t)
  <2>1. doc.text[p] \notin Left /\ doc.text[p] \notin Right
    BY DEF Left, Right, Names
  <2> QED
    BY <2>1, BehindMark
<1>3. doc.text[t] = ":"
  BY <1>1, <1>2, FollowsName
<1> HIDE DEF t
<1>4. /\ v \in In(doc.text, c) /\ t < v /\ Prev(doc.text, v) = t
      /\ Fits(doc.text[c], doc.text[t], doc.text[v])
      /\ \A x \in In(doc.text, c) : ~ (t < x /\ x < v)
  <2>1. doc.text[t] \notin Left /\ doc.text[t] \notin Right
    BY <1>3 DEF Left, Right
  <2> QED
    BY <1>2, <2>1, BehindMark
<1>5. doc.text[v] \in Starts
  BY <1>1, <1>3, <1>4, FollowsColon
<1> HIDE DEF v
<1>6. Char(t, End) = doc.text[t] /\ t \in 1 .. Len(doc.text) /\ v \in 1 .. Len(doc.text)
  BY <1>2, <1>4, InText
<1>7. ASSUME NEW x \in In(doc.text, c), p < x, x < v PROVE doc.text[x] = ":"
  <2>1. x \in 1 .. Len(doc.text)
    BY InText
  <2>2. x = t
    BY <1>1, <1>2, <1>4, <1>6, <1>7, <2>1
  <2> QED
    BY <1>3, <2>2
<1>8. v \in ElementsIn(doc.text, c) /\ p < v
  BY <1>1, <1>2, <1>4, <1>5, <1>6 DEF ElementsIn
<1> QED
  BY <1>2, <1>3, <1>4, <1>6, <1>7, <1>8 DEF t, v

-----------------------------------------------------------------------------
(* Where a step of a path leads.                                           *)

(* The token in front of one that is in a container, unless it is a        *)
(* bracket, is there, too.                                                 *)
LEMMA PrevIn ==
  ASSUME doc \in Docs, NEW c \in Lefts, NEW p \in In(doc.text, c), NEW m, m = Prev(doc.text, p),
         doc.text[m] \notin Left, doc.text[m] \notin Right
  PROVE  m \in In(doc.text, c) /\ m < p
<1> DEFINE q == {x \in Tokens(doc.text) : x < p}
<1>1. /\ c \in 1 .. Len(doc.text) /\ doc.text[c] \in Left /\ p \in 1 .. Len(doc.text) /\ c < p
      /\ Len(doc.text) \in Nat /\ DOMAIN doc.text = 1 .. Len(doc.text)
  BY InText, TextFacts
<1>2. m = IF q = {} THEN 0 ELSE CHOOSE x \in q : \A y \in q : y <= x
  BY DEF Prev
<1>3. c \in q
  BY <1>1 DEF Tokens, Left, Space
<1>4. m \in q /\ \A y \in q : y <= m
  <2>1. q \in SUBSET (0 .. Len(doc.text))
    BY <1>1 DEF Tokens
  <2> HIDE DEF q
  <2>2. \E x \in q : \A y \in q : y <= x
    BY <1>1, <1>3, <2>1, GreatestExists
  <2> QED
    BY <1>2, <1>3, <2>2
<1>5. m \in 1 .. Len(doc.text) /\ doc.text[m] \notin Space /\ m < p /\ c <= m
  BY <1>1, <1>3, <1>4 DEF Tokens
<1>6. c # m
  BY <1>1
<1>7. Bal(c, p - 1) = 1 /\ \A r \in c .. p - 1 : Bal(c, r) > 0
  BY <1>1, InIs
<1>8. Bal(c, m) = 1
  <2>1. ASSUME NEW x \in m + 1 .. p - 1 PROVE x \notin Lefts \cup Rights
    <3>1. x \in 1 .. Len(doc.text) /\ x < p /\ ~ (x <= m)
      BY <1>1, <1>5
    <3>2. x \notin q
      BY <1>4, <3>1, Zenon
    <3>3. doc.text[x] \in Space
      BY <1>1, <3>1, <3>2 DEF Tokens
    <3> QED
      BY <3>3 DEF Lefts, Rights, Space, Left, Right
  <2>2. c \in Int /\ m \in Int /\ p - 1 \in Int /\ c <= m + 1 /\ m <= p - 1
    BY <1>1, <1>5
  <2>3. Bal(c, p - 1) = Bal(c, m)
    BY <2>1, <2>2, BalFlat
  <2> QED
    BY <1>7, <2>3
<1>9. Bal(c, m - 1) = 1
  <2>1. m \notin Lefts \cup Rights /\ m - 1 \in Int /\ c \in Int /\ c <= (m - 1) + 1 /\ (m - 1) + 1 = m
    BY <1>1, <1>5 DEF Lefts, Rights
  <2>2. Bal(c, (m - 1) + 1) = Bal(c, m - 1)
    BY <2>1, BalStep
  <2> QED
    BY <1>8, <2>1, <2>2
<1>10. \A r \in c .. m - 1 : Bal(c, r) > 0
  <2>1. \A r \in c .. m - 1 : r \in c .. p - 1
    BY <1>1, <1>5
  <2> QED
    BY <1>7, <2>1
<1>11. c < m
  BY <1>1, <1>5, <1>6
<1> QED
  BY <1>1, <1>5, <1>9, <1>10, <1>11, InIs

(* No two tokens have the same one in front.                               *)
LEMMA PrevTells ==
  ASSUME doc \in Docs, NEW x \in Tokens(doc.text), NEW y \in Tokens(doc.text), x < y
  PROVE  x <= Prev(doc.text, y) /\ Prev(doc.text, x) < x
<1>1. Len(doc.text) \in Nat /\ Tokens(doc.text) \subseteq 1 .. Len(doc.text)
  BY TextFacts DEF Tokens
<1>2. ASSUME NEW z \in Tokens(doc.text)
      PROVE  Prev(doc.text, z) < z /\ \A w \in Tokens(doc.text) : w < z => w <= Prev(doc.text, z)
  <2> DEFINE q == {w \in Tokens(doc.text) : w < z}
             m == Prev(doc.text, z)
  <2>1. m = IF q = {} THEN 0 ELSE CHOOSE w \in q : \A v \in q : v <= w
    BY DEF Prev
  <2> HIDE DEF m
  <2>2. CASE q = {}
    BY <1>1, <2>1, <2>2 DEF m
  <2>3. CASE q # {}
    <3>1. q \in SUBSET (0 .. Len(doc.text)) /\ \A w \in q : w < z
      BY <1>1
    <3>2. \A w \in Tokens(doc.text) : w < z => w \in q
      OBVIOUS
    <3> HIDE DEF q
    <3>3. \E w \in q : \A v \in q : v <= w
      BY <1>1, <2>3, <3>1, GreatestExists
    <3>4. m \in q /\ \A v \in q : v <= m
      BY <2>1, <2>3, <3>3
    <3> QED
      BY <3>1, <3>2, <3>4 DEF m
  <2> QED
    BY <2>2, <2>3
<1> QED
  BY <1>2

LEMMA PrevOnce ==
  ASSUME doc \in Docs, NEW x \in Tokens(doc.text), NEW y \in Tokens(doc.text), Prev(doc.text, x) = Prev(doc.text, y)
  PROVE  x = y
<1>1. x \in Nat /\ y \in Nat
  BY TextFacts DEF Tokens
<1>2. ASSUME NEW a \in Tokens(doc.text), NEW b \in Tokens(doc.text), a \in Nat, a < b,
             Prev(doc.text, a) = Prev(doc.text, b)
      PROVE  FALSE
  <2> DEFINE m == Prev(doc.text, a)
  <2>1. a <= Prev(doc.text, b) /\ m < a
    BY <1>2, PrevTells
  <2>2. a <= m
    BY <1>2, <2>1
  <2>3. m \in Nat
    <3> DEFINE q == {w \in Tokens(doc.text) : w < a}
    <3>1. q \in SUBSET (0 .. Len(doc.text)) /\ Len(doc.text) \in Nat
      BY TextFacts DEF Tokens
    <3>2. m = IF q = {} THEN 0 ELSE CHOOSE w \in q : \A v \in q : v <= w
      BY DEF Prev
    <3> HIDE DEF q
    <3>3. q # {} => \E w \in q : \A v \in q : v <= w
      BY <3>1, GreatestExists
    <3>4. q = {} => m = 0
      BY <3>2
    <3>5. q # {} => m \in q
      BY <3>2, <3>3
    <3>6. \A w \in q : w \in Nat
      BY <3>1
    <3> HIDE DEF m
    <3>7. 0 \in Nat
      OBVIOUS
    <3> QED
      BY <3>4, <3>5, <3>6, <3>7, Zenon
  <2> HIDE DEF m
  <2> QED
    BY <1>2, <2>1, <2>2, <2>3
<1>3. ~ (x < y) /\ ~ (y < x)
  BY <1>1, <1>2
<1> QED
  BY <1>1, <1>3

LEMMA InNat ==
  ASSUME doc \in Docs, NEW c \in Lefts, NEW x \in In(doc.text, c)
  PROVE  x \in Nat
<1>1. x \in 1 .. Len(doc.text)
  BY InText
<1> QED
  BY <1>1

LEMMA NatEqual == \A a, b \in Nat : ~ (a < b) /\ ~ (b < a) => a = b
OBVIOUS

LEMMA ContainerInText ==
  ASSUME doc \in Docs, NEW c \in Lefts
  PROVE  c \in DOMAIN doc.text /\ doc.text[c] \in Left
<1>1. doc.text \in Seq(STRING) /\ c \in 1 .. Len(doc.text) /\ doc.text[c] \in Left
  BY TextFacts DEF Lefts
<1> QED
  BY <1>1

(* The name of a value in a class is there, too.                           *)
LEMMA NameOf ==
  ASSUME doc \in Docs, IsJSON(doc.text), NEW c \in Lefts, doc.text[c] = "{", NEW q \in ElementsIn(doc.text, c)
  PROVE  LET p == Prev(doc.text, Prev(doc.text, q))
         IN p \in In(doc.text, c) /\ doc.text[p] \in Names
<1>1. q \in In(doc.text, c) /\ doc.text[q] \in Starts /\ c \in DOMAIN doc.text /\ doc.text[c] \in Left
  BY ContainerInText DEF ElementsIn
<1> DEFINE m == Prev(doc.text, q)
           p == Prev(doc.text, m)
<1>2. Fits("{", doc.text[m], doc.text[q])
  BY <1>1 DEF IsJSON
<1>3. doc.text[m] = ":"
  BY <1>1, <1>2 DEF Fits, Starts, Values, Left, Right, Names
<1>4. m \in In(doc.text, c)
  <2>1. doc.text[m] \notin Left /\ doc.text[m] \notin Right
    BY <1>3 DEF Left, Right
  <2> HIDE DEF m
  <2>2. m = Prev(doc.text, q)
    BY DEF m
  <2> QED
    BY <1>1, <2>1, <2>2, PrevIn
<1> HIDE DEF m
<1>5. Fits("{", doc.text[p], doc.text[m])
  BY <1>1, <1>4 DEF IsJSON
<1>6. doc.text[p] \in Names
  BY <1>3, <1>5 DEF Fits, Starts, Values, Left, Right, Names
<1>7. p \in In(doc.text, c)
  <2>1. doc.text[p] \notin Left /\ doc.text[p] \notin Right
    BY <1>6 DEF Left, Right, Names
  <2>2. p = Prev(doc.text, m)
    OBVIOUS
  <2> HIDE DEF p
  <2> QED
    BY <1>4, <2>1, <2>2, PrevIn
<1> QED
  BY <1>6, <1>7 DEF m, p

(* A name leads to the value of the first member of that name, ...         *)
LEMMA NameChild ==
  ASSUME doc \in Docs, IsJSON(doc.text), NEW c \in Lefts, doc.text[c] = "{", NEW step, step.name \in Names,
         NEW n \in In(doc.text, c), doc.text[n] = step.name, \A x \in In(doc.text, c) : x < n => doc.text[x] # step.name,
         NEW v \in ElementsIn(doc.text, c), Prev(doc.text, Prev(doc.text, v)) = n
  PROVE  Child(doc.text, c, step) = {v}
<1> DEFINE nameOf(q) == Prev(doc.text, Prev(doc.text, q))
           Is(q) == doc.text[nameOf(q)] = step.name /\ \A x \in In(doc.text, c) : x < nameOf(q) => doc.text[x] # step.name
<1>1. Child(doc.text, c, step) = {q \in ElementsIn(doc.text, c) : Is(q)}
  BY DEF Child
<1>2. Is(v)
  OBVIOUS
<1>3. ASSUME NEW q \in ElementsIn(doc.text, c), Is(q) PROVE q = v
  <2>1. nameOf(q) \in In(doc.text, c) /\ n \in In(doc.text, c)
    BY <1>3, NameOf
  <2>2. nameOf(q) \in Nat /\ n \in Nat
    <3>1. \A x \in In(doc.text, c) : x \in Nat
      BY InNat
    <3> QED
      BY <2>1, <3>1
  <2>3. ~ (nameOf(q) < n) /\ ~ (n < nameOf(q))
    BY <1>3, <2>1
  <2>4. nameOf(q) = n
    <3> DEFINE m == nameOf(q)
    <3> HIDE DEF m
    <3>1. m \in Nat /\ n \in Nat /\ ~ (m < n) /\ ~ (n < m)
      BY <2>2, <2>3 DEF m
    <3>2. m = n
      BY <3>1, NatEqual, Zenon
    <3> QED
      BY <3>2 DEF m
  <2>5. \A x \in ElementsIn(doc.text, c) : x \in Tokens(doc.text) /\ Prev(doc.text, x) \in Tokens(doc.text)
    <3> SUFFICES ASSUME NEW x \in ElementsIn(doc.text, c)
                 PROVE  x \in Tokens(doc.text) /\ Prev(doc.text, x) \in Tokens(doc.text)
      OBVIOUS
    <3>1. x \in In(doc.text, c) /\ doc.text[x] \in Starts /\ c \in DOMAIN doc.text /\ doc.text[c] \in Left
      BY ContainerInText DEF ElementsIn
    <3> DEFINE m == Prev(doc.text, x)
    <3>2. Fits("{", doc.text[m], doc.text[x])
      BY <3>1 DEF IsJSON
    <3>3. doc.text[m] = ":"
      BY <3>1, <3>2 DEF Fits, Starts, Values, Left, Right, Names
    <3>4. doc.text[m] \notin Left /\ doc.text[m] \notin Right /\ m = Prev(doc.text, x)
      BY <3>3 DEF Left, Right
    <3> HIDE DEF m
    <3>5. m \in In(doc.text, c)
      BY <3>1, <3>4, PrevIn
    <3> QED
      BY <3>1, <3>5 DEF In, m
  <2>6. Prev(doc.text, q) = Prev(doc.text, v)
    <3> DEFINE a == Prev(doc.text, q)
               b == Prev(doc.text, v)
    <3>1. a \in Tokens(doc.text) /\ b \in Tokens(doc.text) /\ Prev(doc.text, a) = Prev(doc.text, b)
      BY <2>4, <2>5
    <3> HIDE DEF a, b
    <3>2. a = b
      BY <3>1, PrevOnce
    <3> QED
      BY <3>2 DEF a, b
  <2> QED
    BY <1>3, <2>5, <2>6, PrevOnce
<1> HIDE DEF Is
<1> QED
  BY <1>1, <1>2, <1>3

(* ... or nowhere, if there is none.                                       *)
LEMMA NameNone ==
  ASSUME doc \in Docs, IsJSON(doc.text), NEW c \in Lefts, NEW step, step.name \in Names,
         \A x \in In(doc.text, c) : doc.text[x] # step.name
  PROVE  Child(doc.text, c, step) = {}
<1> SUFFICES ASSUME NEW q \in Child(doc.text, c, step) PROVE FALSE
  OBVIOUS
<1> DEFINE n == Prev(doc.text, Prev(doc.text, q))
<1>1. q \in ElementsIn(doc.text, c) /\ doc.text[c] = "{" /\ doc.text[n] = step.name
  BY DEF Child
<1>2. n \in In(doc.text, c)
  BY <1>1, NameOf
<1> QED
  BY <1>1, <1>2

(* How many elements of the container at c are in front of p.              *)
Ord(c, p) == Cardinality({e \in ElementsIn(doc.text, c) : e < p})

LEMMA ElementsInText ==
  ASSUME doc \in Docs, NEW c \in Lefts
  PROVE  \A e \in ElementsIn(doc.text, c) : e \in In(doc.text, c) /\ e \in Nat /\ e >= 1 /\ doc.text[e] \in Starts
<1> SUFFICES ASSUME NEW e \in ElementsIn(doc.text, c)
             PROVE  e \in In(doc.text, c) /\ e \in Nat /\ e >= 1 /\ doc.text[e] \in Starts
  OBVIOUS
<1>1. e \in In(doc.text, c) /\ doc.text[e] \in Starts
  BY DEF ElementsIn
<1>2. e \in 1 .. Len(doc.text) /\ Len(doc.text) \in Nat
  BY <1>1, InText, TextFacts
<1> QED
  BY <1>1, <1>2

(* They are counted one after the other.                                   *)
LEMMA OrdIs ==
  ASSUME doc \in Docs, NEW c \in Lefts, NEW p \in Nat
  PROVE  Ord(c, p) = CountIn(ElementsIn(doc.text, c), 1, p - 1) /\ Ord(c, p) \in Nat
<1> DEFINE E == ElementsIn(doc.text, c)
<1>1. \A e \in E : e \in Nat /\ e >= 1
  BY ElementsInText
<1> HIDE DEF E
<1>2. {e \in E : e < p} = E \cap (1 .. p - 1)
  BY <1>1
<1>3. Ord(c, p) = Cardinality({e \in E : e < p})
  BY DEF Ord, E
<1>4. Ord(c, p) = CountIn(E, 1, p - 1)
  BY <1>2, <1>3, Zenon DEF CountIn
<1>5. CountIn(E, 1, p - 1) \in Nat
  <2>1. p - 1 \in Int /\ 1 \in Int
    OBVIOUS
  <2> QED
    BY <2>1, CountType
<1> QED
  BY <1>4, <1>5 DEF E

LEMMA OrdFirst ==
  ASSUME doc \in Docs, NEW c \in Lefts, NEW p \in Nat, \A x \in ElementsIn(doc.text, c) : ~ (x < p)
  PROVE  Ord(c, p) = 0
<1>1. {e \in ElementsIn(doc.text, c) : e < p} = {}
  OBVIOUS
<1> QED
  BY <1>1, FS_EmptySet, Zenon DEF Ord

(* From one element to the next, the count grows by one; ...               *)
LEMMA OrdNext ==
  ASSUME doc \in Docs, NEW c \in Lefts, NEW p \in ElementsIn(doc.text, c), NEW n \in Nat, p < n,
         \A x \in ElementsIn(doc.text, c) : ~ (p < x /\ x < n)
  PROVE  Ord(c, n) = Ord(c, p) + 1
<1> DEFINE E == ElementsIn(doc.text, c)
<1>1. \A e \in E : e \in Nat /\ e >= 1
  BY ElementsInText
<1>2. p \in E /\ p \in Nat /\ p >= 1 /\ Ord(c, n) = CountIn(E, 1, n - 1) /\ Ord(c, p) = CountIn(E, 1, p - 1)
  BY <1>1, OrdIs
<1>3. \A x \in E : ~ (p < x /\ x < n)
  OBVIOUS
<1> HIDE DEF E
<1>4. 1 \in Int /\ p - 1 \in Int /\ n - 1 \in Int /\ 1 <= (p - 1) + 1 /\ (p - 1) + 1 = p /\ p \in Int
  BY <1>2
<1>5. CountIn(E, 1, (p - 1) + 1) = CountIn(E, 1, p - 1) + (IF (p - 1) + 1 \in E THEN 1 ELSE 0)
  BY <1>4, CountLast
<1>6. CountIn(E, 1, n - 1) = CountIn(E, 1, p) + CountIn(E, p + 1, n - 1)
  <2>1. 1 <= p + 1 /\ p <= n - 1
    BY <1>2
  <2> QED
    BY <1>4, <2>1, CountSplit
<1>7. CountIn(E, p + 1, n - 1) = 0
  <2>1. E \cap (p + 1 .. n - 1) = {}
    BY <1>2, <1>3
  <2> QED
    BY <2>1, FS_EmptySet, Zenon DEF CountIn
<1>8. CountIn(E, 1, p - 1) \in Nat
  BY <1>4, CountType
<1> QED
  BY <1>2, <1>4, <1>5, <1>6, <1>7, <1>8

(* ... and further on, it has grown.                                       *)
LEMMA OrdMore ==
  ASSUME doc \in Docs, NEW c \in Lefts, NEW p \in ElementsIn(doc.text, c), NEW q \in Nat, p < q
  PROVE  Ord(c, p) < Ord(c, q)
<1> DEFINE E == ElementsIn(doc.text, c)
<1>1. \A e \in E : e \in Nat /\ e >= 1
  BY ElementsInText
<1>2. p \in E /\ p \in Nat /\ p >= 1 /\ Ord(c, q) = CountIn(E, 1, q - 1) /\ Ord(c, p) = CountIn(E, 1, p - 1)
  BY <1>1, OrdIs
<1> HIDE DEF E
<1>4. 1 \in Int /\ p - 1 \in Int /\ q - 1 \in Int /\ 1 <= (p - 1) + 1 /\ (p - 1) + 1 = p /\ p \in Int /\ p + 1 \in Int
  BY <1>2
<1>5. CountIn(E, 1, (p - 1) + 1) = CountIn(E, 1, p - 1) + (IF (p - 1) + 1 \in E THEN 1 ELSE 0)
  BY <1>4, CountLast
<1>6. CountIn(E, 1, q - 1) = CountIn(E, 1, p) + CountIn(E, p + 1, q - 1)
  <2>1. 1 <= p + 1 /\ p <= q - 1
    BY <1>2
  <2> QED
    BY <1>4, <2>1, CountSplit
<1>7. CountIn(E, 1, p - 1) \in Nat /\ CountIn(E, p + 1, q - 1) \in Nat
  BY <1>4, CountType
<1> QED
  BY <1>2, <1>4, <1>5, <1>6, <1>7

(* An index leads to the element with so many in front of it, ...          *)
LEMMA IndexChild ==
  ASSUME doc \in Docs, NEW c \in Lefts, doc.text[c] = "[", NEW step, step.name \notin Names,
         NEW p \in ElementsIn(doc.text, c), Ord(c, p) = step.index
  PROVE  Child(doc.text, c, step) = {p}
<1> DEFINE E == ElementsIn(doc.text, c)
<1>1. Child(doc.text, c, step) = {q \in E : Ord(c, q) = step.index}
  BY DEF Child, Ord
<1>2. ASSUME NEW q \in E, Ord(c, q) = step.index PROVE q = p
  <2>1. p \in Nat /\ q \in Nat
    BY ElementsInText
  <2>2. Ord(c, p) = Ord(c, q) /\ Ord(c, p) \in Nat
    BY <1>2, <2>1, OrdIs
  <2>3. ~ (p < q)
    <3> SUFFICES ASSUME p < q PROVE FALSE
      OBVIOUS
    <3>1. Ord(c, p) < Ord(c, q)
      BY <2>1, OrdMore
    <3> QED
      BY <2>2, <3>1
  <2>4. ~ (q < p)
    <3> SUFFICES ASSUME q < p PROVE FALSE
      OBVIOUS
    <3>1. Ord(c, q) < Ord(c, p)
      BY <2>1, OrdMore
    <3> QED
      BY <2>2, <3>1
  <2> QED
    BY <2>1, <2>3, <2>4, NatEqual, Zenon
<1>3. p \in E
  OBVIOUS
<1> HIDE DEF E
<1> QED
  BY <1>1, <1>2, <1>3, Zenon

(* ... or nowhere, if the container ends before it.                        *)
LEMMA IndexNone ==
  ASSUME doc \in Docs, NEW c \in Lefts, NEW step, step.name \notin Names, step.index \in Nat,
         NEW p \in In(doc.text, c), doc.text[p] \in Right, Ord(c, p) <= step.index
  PROVE  Child(doc.text, c, step) = {}
<1> SUFFICES ASSUME NEW q \in Child(doc.text, c, step) PROVE FALSE
  OBVIOUS
<1>1. q \in ElementsIn(doc.text, c) /\ Ord(c, q) = step.index
  BY DEF Child, Ord
<1>2. q \in In(doc.text, c) /\ q \in Nat /\ doc.text[q] \in Starts
  BY <1>1, ElementsInText
<1>3. p \in Nat
  BY InNat
<1>4. q # p
  BY <1>2 DEF Starts, Values, Left, Right
<1>5. q <= p
  BY <1>2, NothingBehind
<1>6. q < p
  BY <1>2, <1>3, <1>4, <1>5
<1>7. Ord(c, q) < Ord(c, p) /\ Ord(c, q) \in Nat /\ Ord(c, p) \in Nat
  BY <1>1, <1>2, <1>3, <1>6, OrdMore, OrdIs
<1> QED
  BY <1>1, <1>7

(* A step leads nowhere from what is not what it is for.                   *)
LEMMA WrongKind ==
  ASSUME NEW c, NEW step, doc.text[c] # IF step.name \in Names THEN "{" ELSE "["
  PROVE  Child(doc.text, c, step) = {}
BY DEF Child

-----------------------------------------------------------------------------
(* Where the steps lead, one after the other.                              *)

(* Led is what its recursive definition says.                              *)
LEMMA LedFacts ==
  ASSUME doc \in Docs
  PROVE  /\ Len(doc.path) \in Nat
         /\ Led(doc)[0] = {p \in Tokens(doc.text) : Prev(doc.text, p) = 0}
         /\ \A k \in 1 .. Len(doc.path) :
              Led(doc)[k] = UNION {Child(doc.text, c, doc.path[k]) : c \in Led(doc)[k - 1]}
<1> DEFINE n == Len(doc.path)
           base == {p \in Tokens(doc.text) : Prev(doc.text, p) = 0}
           Down(S, k) == UNION {Child(doc.text, c, doc.path[k]) : c \in S}
           Sets == SUBSET Tokens(doc.text)
           step == [k \in 1 .. n |-> [S \in Sets |-> Down(S, k)]]
<1>1. n \in Nat
  BY DocsAssumption DEF IsPath
<1>2. PICK g : GoesUp(g, n, base, step)
  <2> HIDE DEF step
  <2> QED
    BY <1>1, UpwardRecursion
<1>3. g = [k \in 0 .. n |-> g[k]] /\ g[0] = base /\ \A k \in 1 .. n : g[k] = step[k][g[k - 1]]
  BY <1>2 DEF GoesUp
<1>4. \A S, k : Down(S, k) \in Sets
  BY DEF Child, ElementsIn, In
<1>5. base \in Sets
  OBVIOUS
<1> HIDE DEF base, Down, Sets
<1>6. \A k \in 0 .. n : g[k] \in Sets
  <2> DEFINE Typed == {k \in 0 .. n : g[k] \in Sets}
  <2>1. 0 \in Typed
    BY <1>1, <1>3, <1>5
  <2>2. ASSUME NEW k \in 1 .. n, k - 1 \in Typed PROVE k \in Typed
    <3>1. g[k - 1] \in Sets /\ k \in 0 .. n
      BY <2>2
    <3>2. g[k] = Down(g[k - 1], k)
      BY <1>3, <3>1
    <3> QED
      BY <1>4, <3>1, <3>2
  <2> HIDE DEF Typed
  <2>3. \A k \in (0 + 1) .. n : k - 1 \in Typed => k \in Typed
    BY <2>2
  <2>4. \A k \in 0 .. n : k \in Typed
    BY <1>1, <2>1, <2>3, UpFrom
  <2> QED
    BY <2>4 DEF Typed
<1>7. \A k \in 1 .. n : g[k] = Down(g[k - 1], k)
  <2> SUFFICES ASSUME NEW k \in 1 .. n PROVE g[k] = Down(g[k - 1], k)
    OBVIOUS
  <2>1. k - 1 \in 0 .. n
    BY <1>1
  <2> QED
    BY <1>3, <1>6, <2>1
<1> HIDE DEF step
<1>8. g = [k \in 0 .. n |-> IF k = 0 THEN base ELSE Down(g[k - 1], k)]
  <2>1. \A k \in 0 .. n : k = 0 \/ k \in 1 .. n
    BY <1>1
  <2>2. \A k \in 0 .. n : g[k] = IF k = 0 THEN base ELSE Down(g[k - 1], k)
    BY <1>3, <1>7, <2>1, Zenon
  <2> QED
    BY <1>3, <2>2, Zenon
<1> DEFINE led == CHOOSE f : f = [k \in 0 .. n |-> IF k = 0 THEN base ELSE Down(f[k - 1], k)]
<1>9. led = [k \in 0 .. n |-> IF k = 0 THEN base ELSE Down(led[k - 1], k)]
  BY <1>8, Zenon
<1>10. Led(doc) = led
  BY Zenon DEF Led, base, Down
<1> HIDE DEF led
<1>11. led[0] = base /\ \A k \in 1 .. n : led[k] = Down(led[k - 1], k)
  <2>1. 0 \in 0 .. n /\ \A k \in 1 .. n : k \in 0 .. n /\ k # 0
    BY <1>1
  <2> HIDE DEF n
  <2> QED
    BY <1>9, <2>1, Zenon
<1> QED
  BY <1>1, <1>10, <1>11, Zenon DEF base, Down

(* From the only container that the steps lead to, the next one leads on.  *)
LEMMA LedOne ==
  ASSUME doc \in Docs, NEW k \in 1 .. Len(doc.path), NEW c, Led(doc)[k - 1] = {c}
  PROVE  Led(doc)[k] = Child(doc.text, c, doc.path[k])
<1>1. Led(doc)[k] = UNION {Child(doc.text, x, doc.path[k]) : x \in {c}}
  BY LedFacts
<1>2. {Child(doc.text, x, doc.path[k]) : x \in {c}} = {Child(doc.text, c, doc.path[k])}
  OBVIOUS
<1>3. UNION {Child(doc.text, c, doc.path[k])} = Child(doc.text, c, doc.path[k])
  OBVIOUS
<1> QED
  BY <1>1, <1>2, <1>3, Zenon

(* When a step leads nowhere, the path does.                               *)
LEMMA LedNone ==
  ASSUME doc \in Docs, NEW k \in 0 .. Len(doc.path), Led(doc)[k] = {}
  PROVE  Leads(doc) = {}
<1> DEFINE S == {l \in k .. Len(doc.path) : Led(doc)[l] = {}}
<1>1. Len(doc.path) \in Nat /\ k \in Nat
  BY LedFacts
<1>2. k \in S
  BY <1>1
<1>3. ASSUME NEW l \in (k + 1) .. Len(doc.path), l - 1 \in S PROVE l \in S
  <2>1. Led(doc)[l - 1] = {} /\ l \in 1 .. Len(doc.path) /\ l \in k .. Len(doc.path)
    BY <1>1, <1>3
  <2>2. Led(doc)[l] = UNION {Child(doc.text, c, doc.path[l]) : c \in {}}
    BY <2>1, LedFacts
  <2>3. Led(doc)[l] = {}
    BY <2>2
  <2> QED
    BY <2>1, <2>3
<1> HIDE DEF S
<1>4. \A l \in k .. Len(doc.path) : l \in S
  BY <1>1, <1>2, <1>3, UpFrom
<1>5. Len(doc.path) \in k .. Len(doc.path)
  BY <1>1
<1>6. Led(doc)[Len(doc.path)] = {}
  BY <1>4, <1>5 DEF S
<1> QED
  BY <1>6 DEF Leads

-----------------------------------------------------------------------------
(* The search for a path. rest is what is left of it.                      *)
Done(d, rest) == Len(d.path) - Len(rest)
IsRest(d, rest) ==
  /\ d.path # <<>> /\ rest \in Seq([name : STRING, index : Nat]) /\ Done(d, rest) \in Nat
  /\ \A k \in 1 .. Len(rest) : rest[k] = d.path[Done(d, rest) + k]

(* The steps taken lead to p alone, or nowhere, and what is at p is not the*)
(* container that another step needs.                                      *)
Finding(d, rest, p) ==
  \/ Led(d)[Done(d, rest)] = {p} /\ p \in 1 .. Len(d.text)
  \/ Led(d)[Done(d, rest)] = {} /\ (p \in 1 .. Len(d.text) => d.text[p] \notin Left)

(* The steps taken lead to a class; at p is the value of the name at n, and*)
(* no name in front of that is the one asked for.                          *)
Naming(d, rest, p, n) ==
  \E c \in 1 .. Len(d.text) :
    /\ Led(d)[Done(d, rest)] = {c} /\ d.text[c] = "{" /\ rest # <<>> /\ rest[1].name \in Names
    /\ n \in In(d.text, c) /\ d.text[n] \in Names
    /\ \A x \in In(d.text, c) : x < n => d.text[x] # rest[1].name
    /\ p \in ElementsIn(d.text, c) /\ Prev(d.text, Prev(d.text, p)) = n
    /\ \A x \in In(d.text, c) : n < x /\ x < p => d.text[x] = ":"

(* The steps taken lead to an array; p is at an element of it or its end,  *)
(* and so many elements in front of the one asked for.                     *)
Counting(d, rest, p, left) ==
  \E c \in 1 .. Len(d.text) :
    /\ Led(d)[Done(d, rest)] = {c} /\ d.text[c] = "[" /\ rest # <<>> /\ rest[1].name \notin Names
    /\ p \in In(d.text, c) /\ (d.text[p] \in Starts \/ d.text[p] = "]") /\ left \in Nat
    /\ Cardinality({e \in ElementsIn(d.text, c) : e < p}) = rest[1].index - left

(* What has been found is all that the path leads to.                      *)
AllFound(d, p) == IF p \in 1 .. Len(d.text) /\ d.text[p] = "[" THEN Leads(d) = {p} ELSE Leads(d) = {}

SearchAt(d, ph, rest, p, n) ==
  d.form = "array" =>
    /\ ph \in {"find", "name", "index", "found", "refused", "iterate"}
    /\ ph \in {"find", "name", "index"} => IsRest(d, rest)
    /\ ph = "find" => Finding(d, rest, p)
    /\ ph = "name" => Naming(d, rest, p, n)
    /\ ph = "index" => Counting(d, rest, p, n)
    /\ ph = "refused" => Leads(d) = {}
    /\ ph = "found" => AllFound(d, p)
    /\ ph = "iterate" => p \in 1 .. Len(d.text) /\ Leads(d) = {p}
SearchInv == SearchAt(doc, phase, steps, pos, count)

(* A text is searched for a path only if it is JSON.                       *)
Searchable == doc \in Docs /\ doc.form = "array" /\ IsJSON(doc.text) /\ pos \in 1 .. End

LEMMA InLefts ==
  ASSUME NEW c \in 1 .. Len(doc.text), doc.text[c] = "{" \/ doc.text[c] = "["
  PROVE  c \in Lefts
BY DEF Lefts, Left

LEMMA TailFacts ==
  ASSUME NEW S, NEW s \in Seq(S), s # <<>>
  PROVE  /\ s[1] \in S /\ Tail(s) \in Seq(S) /\ Len(Tail(s)) = Len(s) - 1
         /\ \A k \in 1 .. Len(s) - 1 : Tail(s)[k] = s[k + 1]
<1>1. Len(s) \in Nat /\ Len(s) >= 1
  OBVIOUS
<1>2. s[1] \in S
  BY <1>1
<1>3. Tail(s) \in Seq(S)
  OBVIOUS
<1>4. Len(Tail(s)) = Len(s) - 1
  OBVIOUS
<1>5. \A k \in 1 .. Len(s) - 1 : Tail(s)[k] = s[k + 1]
  OBVIOUS
<1> QED
  BY <1>2, <1>3, <1>4, <1>5

(* The next step of the rest is one of the path, and what it leads to is   *)
(* what all steps up to it lead to.                                        *)
LEMMA NextStep ==
  ASSUME doc \in Docs, NEW rest, IsRest(doc, rest), rest # <<>>
  PROVE  /\ rest[1].index \in Nat /\ IsRest(doc, Tail(rest)) /\ Done(doc, Tail(rest)) = Done(doc, rest) + 1
         /\ \A c : Led(doc)[Done(doc, rest)] = {c} =>
              /\ Led(doc)[Done(doc, Tail(rest))] = Child(doc.text, c, rest[1])
              /\ Child(doc.text, c, rest[1]) = {} => Leads(doc) = {}
<1> DEFINE n == Len(doc.path)
           r == Len(rest)
           done == Done(doc, rest)
           Item == [name : STRING, index : Nat]
<1>1. n \in Nat /\ rest \in Seq(Item) /\ done = n - r /\ done \in Nat /\ \A k \in 1 .. r : rest[k] = doc.path[done + k]
  BY LedFacts DEF IsRest, Done
<1>2. r \in Nat /\ r >= 1
  BY <1>1
<1>3. rest[1] \in Item /\ Tail(rest) \in Seq(Item) /\ Len(Tail(rest)) = r - 1
      /\ \A k \in 1 .. r - 1 : Tail(rest)[k] = rest[k + 1]
  <2> HIDE DEF Item
  <2> QED
    BY <1>1, TailFacts
<1>4. done + 1 \in 1 .. n /\ done \in 0 .. n /\ (done + 1) - 1 = done /\ done + 1 \in 0 .. n /\ done + 1 \in Nat
  BY <1>1, <1>2
<1>5. Done(doc, Tail(rest)) = done + 1
  <2>1. Done(doc, Tail(rest)) = n - Len(Tail(rest))
    BY DEF Done
  <2>2. n \in Nat /\ r \in Nat /\ done = n - r /\ Len(Tail(rest)) = r - 1
    BY <1>1, <1>2, <1>3
  <2> HIDE DEF n, r, done
  <2> QED
    BY <2>1, <2>2
<1>6. rest[1] = doc.path[done + 1]
  <2>1. 1 \in 1 .. r
    BY <1>2
  <2> HIDE DEF done, r
  <2> QED
    BY <1>1, <2>1
<1>7. IsRest(doc, Tail(rest))
  <2>1. \A k \in 1 .. Len(Tail(rest)) : Tail(rest)[k] = doc.path[(done + 1) + k]
    <3> SUFFICES ASSUME NEW k \in 1 .. r - 1 PROVE Tail(rest)[k] = doc.path[(done + 1) + k]
      BY <1>3
    <3>1. k + 1 \in 1 .. r /\ done + (k + 1) = (done + 1) + k
      <4>1. done \in Nat /\ r \in Nat /\ k \in 1 .. r - 1
        BY <1>1, <1>2
      <4> HIDE DEF done, r
      <4> QED
        BY <4>1
    <3>2. Tail(rest)[k] = rest[k + 1]
      BY <1>3
    <3>3. rest[k + 1] = doc.path[done + (k + 1)]
      BY <1>1, <3>1
    <3> QED
      BY <3>1, <3>2, <3>3
  <2>2. doc.path # <<>>
    BY DEF IsRest
  <2> HIDE DEF done
  <2> QED
    BY <1>3, <1>4, <1>5, <2>1, <2>2 DEF IsRest
<1>8. ASSUME NEW c, Led(doc)[done] = {c}
      PROVE  /\ Led(doc)[done + 1] = Child(doc.text, c, rest[1])
             /\ Child(doc.text, c, rest[1]) = {} => Leads(doc) = {}
  <2> HIDE DEF done
  <2>1. Led(doc)[(done + 1) - 1] = {c}
    BY <1>4, <1>8
  <2>2. Led(doc)[done + 1] = Child(doc.text, c, doc.path[done + 1])
    BY <1>4, <2>1, LedOne
  <2>3. Led(doc)[done + 1] = {} => Leads(doc) = {}
    BY <1>4, LedNone
  <2> QED
    BY <1>6, <2>2, <2>3
<1> QED
  BY <1>3, <1>5, <1>7, <1>8

(* When the steps taken lead nowhere, the path does.                       *)
LEMMA Nowhere ==
  ASSUME doc \in Docs, NEW rest, IsRest(doc, rest), Led(doc)[Done(doc, rest)] = {}
  PROVE  Leads(doc) = {}
<1>1. Done(doc, rest) \in 0 .. Len(doc.path)
  <2>1. Len(doc.path) \in Nat /\ Len(rest) \in Nat /\ Done(doc, rest) = Len(doc.path) - Len(rest) /\ Done(doc, rest) \in Nat
    BY LedFacts DEF IsRest, Done
  <2> QED
    BY <2>1
<1> QED
  BY <1>1, LedNone

(* Reading a name in a class leads to its value; reading the closing       *)
(* bracket as one is refused.                                              *)
LEMMA ReadsName ==
  ASSUME doc \in Docs, IsJSON(doc.text), NEW c \in Lefts, doc.text[c] = "{", NEW place \in In(doc.text, c),
         doc.text[place] \in Names \/ doc.text[place] = "}", ReadName(place)
  PROVE  IF doc.text[place] \in Names
         THEN /\ phase' = "name" /\ count' = place /\ steps' = steps
              /\ pos' \in ElementsIn(doc.text, c) /\ Prev(doc.text, Prev(doc.text, pos')) = place
              /\ \A x \in In(doc.text, c) : place < x /\ x < pos' => doc.text[x] = ":"
         ELSE phase' = "refused"
<1> DEFINE colon == Trim(place + 1, End)
           value == Trim(colon + 1, End)
<1>1. IF Char(place, End) \in Names /\ Char(colon, End) = ":"
      THEN pos' = value /\ phase' = "name" /\ count' = place /\ steps' = steps
      ELSE phase' = "refused"
  BY DEF ReadName, Refuse
<1>2. Char(place, End) = doc.text[place]
  BY InText
<1>3. CASE doc.text[place] \in Names
  <2>1. Char(colon, End) = ":" /\ value \in ElementsIn(doc.text, c) /\ Prev(doc.text, Prev(doc.text, value)) = place
        /\ \A x \in In(doc.text, c) : place < x /\ x < value => doc.text[x] = ":"
    BY <1>3, NameItem
  <2> HIDE DEF colon, value
  <2> QED
    BY <1>1, <1>2, <1>3, <2>1
<1>4. CASE doc.text[place] \notin Names
  BY <1>1, <1>2, <1>4
<1> QED
  BY <1>3, <1>4

LEMMA NatBelow == \A a, b \in Nat : a <= b => a < b \/ a = b
OBVIOUS

(* At the closing bracket of a class, all its names have been passed.      *)
LEMMA NoName ==
  ASSUME doc \in Docs, IsJSON(doc.text), NEW c \in Lefts, NEW step, step.name \in Names,
         NEW place \in In(doc.text, c), doc.text[place] = "}",
         \A x \in In(doc.text, c) : x < place => doc.text[x] # step.name
  PROVE  Child(doc.text, c, step) = {}
<1>1. ASSUME NEW x \in In(doc.text, c) PROVE doc.text[x] # step.name
  <2>1. x <= place /\ x \in Nat /\ place \in Nat
    <3>1. doc.text[place] \in Right
      BY DEF Right
    <3> QED
      BY <3>1, NothingBehind, InNat
  <2>2. CASE x < place
    BY <2>2
  <2>3. CASE x = place
    BY <2>3 DEF Names
  <2> QED
    BY <2>1, <2>2, <2>3, NatBelow, Zenon
<1> QED
  BY <1>1, NameNone

(* Every step of the search keeps what has been found: into a class, ...   *)
LEMMA SearchEntersClass ==
  ASSUME Searchable, SearchInv, EnterClass
  PROVE  SearchAt(doc, phase', steps', pos', count')
<1>1. /\ doc \in Docs /\ IsJSON(doc.text) /\ pos \in 1 .. End /\ phase = "find" /\ steps # <<>>
      /\ steps[1].name \in Names /\ IsRest(doc, steps) /\ Finding(doc, steps, pos)
      /\ IF Char(pos, End) = "{" THEN ReadName(Trim(pos + 1, End)) ELSE Refuse
  BY DEF Searchable, SearchInv, SearchAt, EnterClass
<1>2. CASE Char(pos, End) = "{"
  <2>1. pos \in 1 .. Len(doc.text) /\ doc.text[pos] = "{"
    <3>1. Char(pos, End) # NUL
      BY <1>2 DEF NUL
    <3> QED
      BY <1>1, <1>2, <3>1, CharInText, TextFacts
  <2>2. Led(doc)[Done(doc, steps)] = {pos} /\ pos \in Lefts
    BY <1>1, <2>1, InLefts DEF Finding, Left
  <2> DEFINE t == Trim(pos + 1, End)
  <2>3. t \in In(doc.text, pos) /\ (\A x \in In(doc.text, pos) : ~ (x < t)) /\ (doc.text[t] = "}" \/ doc.text[t] \in Names)
    BY <1>1, <2>1, <2>2, FirstIn, Zenon DEF Partner
  <2>4. ReadName(t)
    BY <1>1, <1>2
  <2> HIDE DEF t
  <2>5. CASE doc.text[t] \in Names
    <3>1. /\ phase' = "name" /\ count' = t /\ steps' = steps
          /\ pos' \in ElementsIn(doc.text, pos) /\ Prev(doc.text, Prev(doc.text, pos')) = t
          /\ \A x \in In(doc.text, pos) : t < x /\ x < pos' => doc.text[x] = ":"
      BY <1>1, <2>1, <2>2, <2>3, <2>4, <2>5, ReadsName
    <3>2. Naming(doc, steps, pos', t)
      BY <1>1, <2>1, <2>2, <2>3, <2>5, <3>1, Zenon DEF Naming
    <3> QED
      BY <1>1, <3>1, <3>2 DEF SearchAt
  <2>6. CASE doc.text[t] \notin Names
    <3>1. phase' = "refused"
      BY <1>1, <2>1, <2>2, <2>3, <2>4, <2>6, ReadsName
    <3>2. Child(doc.text, pos, steps[1]) = {}
      BY <1>1, <2>2, <2>3, <2>6, NoName
    <3>3. Leads(doc) = {}
      BY <1>1, <2>2, <3>2, NextStep
    <3> QED
      BY <3>1, <3>3 DEF SearchAt
  <2> QED
    BY <2>5, <2>6
<1>3. CASE Char(pos, End) # "{"
  <2>1. phase' = "refused"
    BY <1>1, <1>3 DEF Refuse
  <2>2. Leads(doc) = {}
    <3>1. CASE Led(doc)[Done(doc, steps)] = {}
      BY <1>1, <3>1, Nowhere
    <3>2. CASE Led(doc)[Done(doc, steps)] = {pos} /\ pos \in 1 .. Len(doc.text)
      <4>1. doc.text[pos] # "{"
        <5>1. pos < End
          <6>1. pos \in 1 .. Len(doc.text) /\ Len(doc.text) = End - 1 /\ End \in Nat
            BY <1>1, <3>2, TextFacts
          <6> QED
            BY <6>1
        <5> QED
          BY <1>3, <5>1 DEF Char
      <4>2. Child(doc.text, pos, steps[1]) = {}
        BY <1>1, <4>1, WrongKind
      <4> QED
        BY <1>1, <3>2, <4>2, NextStep
    <3> QED
      BY <1>1, <3>1, <3>2 DEF Finding
  <2> QED
    BY <2>1, <2>2 DEF SearchAt
<1> QED
  BY <1>2, <1>3

(* ... from the name asked for to its value, ...                           *)
LEMMA SearchSameName ==
  ASSUME Searchable, SearchInv, SameName
  PROVE  SearchAt(doc, phase', steps', pos', count')
<1>1. /\ doc \in Docs /\ IsJSON(doc.text) /\ phase = "name" /\ IsRest(doc, steps) /\ Naming(doc, steps, pos, count)
      /\ doc.text[count] = steps[1].name /\ steps' = Tail(steps) /\ phase' = "find" /\ pos' = pos
  BY DEF Searchable, SearchInv, SearchAt, SameName
<1>2. PICK c \in 1 .. Len(doc.text) :
        /\ Led(doc)[Done(doc, steps)] = {c} /\ doc.text[c] = "{" /\ steps # <<>> /\ steps[1].name \in Names
        /\ count \in In(doc.text, c) /\ \A x \in In(doc.text, c) : x < count => doc.text[x] # steps[1].name
        /\ pos \in ElementsIn(doc.text, c) /\ Prev(doc.text, Prev(doc.text, pos)) = count
  BY <1>1, Zenon DEF Naming
<1>3. c \in Lefts
  BY <1>2, InLefts
<1>4. Child(doc.text, c, steps[1]) = {pos}
  <2> DEFINE step == steps[1]
  <2>1. step.name \in Names /\ doc.text[count] = step.name /\ \A x \in In(doc.text, c) : x < count => doc.text[x] # step.name
    BY <1>1, <1>2
  <2> HIDE DEF step
  <2>2. Child(doc.text, c, step) = {pos}
    <3>1. /\ doc \in Docs /\ IsJSON(doc.text) /\ doc.text[c] = "{" /\ count \in In(doc.text, c)
          /\ pos \in ElementsIn(doc.text, c) /\ Prev(doc.text, Prev(doc.text, pos)) = count
      BY <1>1, <1>2
    <3> QED
      BY <1>3, <2>1, <3>1, NameChild
  <2> QED
    BY <2>2 DEF step
<1>5. IsRest(doc, Tail(steps)) /\ Led(doc)[Done(doc, Tail(steps))] = {pos}
  BY <1>1, <1>2, <1>4, NextStep
<1>6. pos \in 1 .. Len(doc.text)
  <2>1. pos \in In(doc.text, c)
    BY <1>2 DEF ElementsIn
  <2> QED
    BY <1>1, <1>3, <2>1, InText
<1>7. Finding(doc, Tail(steps), pos)
  BY <1>5, <1>6 DEF Finding
<1> QED
  BY <1>1, <1>5, <1>7 DEF SearchAt

(* ... past another name and its value, ...                                *)
LEMMA SearchOtherName ==
  ASSUME Searchable, SearchInv, OtherName
  PROVE  SearchAt(doc, phase', steps', pos', count')
<1> DEFINE behind == Behind(pos, End)
           n == NextMember(behind, End)
           t == Trim(behind, End)
<1>1. /\ doc \in Docs /\ IsJSON(doc.text) /\ phase = "name" /\ IsRest(doc, steps) /\ Naming(doc, steps, pos, count)
      /\ doc.text[count] # steps[1].name /\ (IF behind = 0 THEN Refuse ELSE ReadName(n))
  BY DEF Searchable, SearchInv, SearchAt, OtherName
<1>2. PICK c \in 1 .. Len(doc.text) :
        /\ Led(doc)[Done(doc, steps)] = {c} /\ doc.text[c] = "{" /\ steps # <<>> /\ steps[1].name \in Names
        /\ count \in In(doc.text, c) /\ \A x \in In(doc.text, c) : x < count => doc.text[x] # steps[1].name
        /\ pos \in ElementsIn(doc.text, c) /\ \A x \in In(doc.text, c) : count < x /\ x < pos => doc.text[x] = ":"
  BY <1>1, Zenon DEF Naming
<1>3. c \in Lefts
  BY <1>2, InLefts
<1>4. pos \in In(doc.text, c) /\ doc.text[pos] \in Starts
  BY <1>2 DEF ElementsIn
<1>5. /\ behind # 0 /\ n \in In(doc.text, c) /\ pos < n
      /\ \/ doc.text[t] = "}" /\ n = t
         \/ doc.text[t] = "," /\ doc.text[n] \in Names
      /\ \A x \in In(doc.text, c) : pos < x /\ x < n => doc.text[x] = ","
  <2>1. /\ behind # 0 /\ n \in In(doc.text, c) /\ pos < n
        /\ \/ doc.text[t] = Partner("{") /\ n = t
           \/ doc.text[t] = "," /\ doc.text[n] \in IF "{" = "[" THEN Starts ELSE Names
        /\ \A x \in In(doc.text, c) : pos < x /\ x < n => doc.text[x] = ","
    BY <1>1, <1>2, <1>3, <1>4, NextItem
  <2>2. Partner("{") = "}" /\ "{" # "["
    BY DEF Partner
  <2> HIDE DEF behind, n, t
  <2> QED
    BY <2>1, <2>2
<1> HIDE DEF behind, n, t
<1>6. ASSUME NEW x \in In(doc.text, c), x < n PROVE doc.text[x] # steps[1].name
  <2>1. x \in Nat /\ count \in Nat /\ pos \in Nat
    BY <1>1, <1>2, <1>3, <1>4, InNat
  <2>2. CASE x < count
    BY <1>2, <2>2
  <2>3. CASE x = count
    BY <1>1, <2>3
  <2>4. CASE count < x /\ x < pos
    <3>1. doc.text[x] = ":"
      BY <1>2, <2>4
    <3> QED
      BY <1>2, <3>1 DEF Names
  <2>5. CASE x = pos
    BY <1>2, <1>4, <2>5 DEF Names, Starts, Values, Left
  <2>6. CASE pos < x
    <3>1. doc.text[x] = ","
      BY <1>5, <1>6, <2>6
    <3> QED
      BY <1>2, <3>1 DEF Names
  <2>7. x < count \/ x = count \/ (count < x /\ x < pos) \/ x = pos \/ pos < x
    BY <2>1
  <2> QED
    BY <2>2, <2>3, <2>4, <2>5, <2>6, <2>7
<1>7. ReadName(n)
  BY <1>1, <1>5
<1>8. CASE doc.text[n] \in Names
  <2>1. /\ phase' = "name" /\ count' = n /\ steps' = steps
        /\ pos' \in ElementsIn(doc.text, c) /\ Prev(doc.text, Prev(doc.text, pos')) = n
        /\ \A x \in In(doc.text, c) : n < x /\ x < pos' => doc.text[x] = ":"
    BY <1>1, <1>2, <1>3, <1>5, <1>7, <1>8, ReadsName
  <2>2. Naming(doc, steps, pos', n)
    BY <1>2, <1>5, <1>6, <1>8, <2>1, Zenon DEF Naming
  <2> QED
    BY <1>1, <2>1, <2>2 DEF SearchAt
<1>9. CASE doc.text[n] \notin Names
  <2>1. doc.text[n] = "}"
    BY <1>5, <1>9
  <2>2. phase' = "refused"
    BY <1>1, <1>2, <1>3, <1>5, <1>7, <1>9, <2>1, ReadsName
  <2>3. Child(doc.text, c, steps[1]) = {}
    BY <1>1, <1>2, <1>3, <1>5, <1>6, <2>1, NoName
  <2>4. Leads(doc) = {}
    BY <1>1, <1>2, <2>3, NextStep
  <2> QED
    BY <2>2, <2>4 DEF SearchAt
<1> QED
  BY <1>8, <1>9

(* ... into an array, ...                                                  *)
LEMMA SearchEntersIndex ==
  ASSUME Searchable, SearchInv, EnterIndex
  PROVE  SearchAt(doc, phase', steps', pos', count')
<1> DEFINE t == Trim(pos + 1, End)
<1>1. /\ doc \in Docs /\ IsJSON(doc.text) /\ pos \in 1 .. End /\ phase = "find" /\ steps # <<>>
      /\ steps[1].name \notin Names /\ IsRest(doc, steps) /\ Finding(doc, steps, pos)
      /\ IF Char(pos, End) = "["
         THEN pos' = t /\ count' = steps[1].index /\ phase' = "index" /\ steps' = steps
         ELSE Refuse
  BY DEF Searchable, SearchInv, SearchAt, EnterIndex
<1>2. CASE Char(pos, End) = "["
  <2>1. pos \in 1 .. Len(doc.text) /\ doc.text[pos] = "["
    <3>1. Char(pos, End) # NUL
      BY <1>2 DEF NUL
    <3> QED
      BY <1>1, <1>2, <3>1, CharInText, TextFacts
  <2>2. Led(doc)[Done(doc, steps)] = {pos} /\ pos \in Lefts
    BY <1>1, <2>1, InLefts DEF Finding, Left
  <2>3. t \in In(doc.text, pos) /\ (\A x \in In(doc.text, pos) : ~ (x < t)) /\ (doc.text[t] = "]" \/ doc.text[t] \in Starts)
    BY <1>1, <2>1, <2>2, FirstIn, Zenon DEF Partner
  <2> HIDE DEF t
  <2>4. t \in Nat /\ steps[1].index \in Nat
    BY <1>1, <2>2, <2>3, InNat, NextStep
  <2>5. Ord(pos, t) = 0
    <3>1. \A x \in ElementsIn(doc.text, pos) : ~ (x < t)
      BY <2>3 DEF ElementsIn
    <3> QED
      BY <1>1, <2>2, <2>4, <3>1, OrdFirst
  <2>6. 0 = steps[1].index - steps[1].index
    BY <2>4
  <2>7. Counting(doc, steps, t, steps[1].index)
    BY <1>1, <2>1, <2>2, <2>3, <2>4, <2>5, <2>6, Zenon DEF Counting, Ord
  <2> QED
    BY <1>1, <1>2, <2>7 DEF SearchAt
<1>3. CASE Char(pos, End) # "["
  <2>1. phase' = "refused"
    BY <1>1, <1>3 DEF Refuse
  <2>2. Leads(doc) = {}
    <3>1. CASE Led(doc)[Done(doc, steps)] = {}
      BY <1>1, <3>1, Nowhere
    <3>2. CASE Led(doc)[Done(doc, steps)] = {pos} /\ pos \in 1 .. Len(doc.text)
      <4>1. doc.text[pos] # "["
        <5>1. pos < End
          <6>1. pos \in 1 .. Len(doc.text) /\ Len(doc.text) = End - 1 /\ End \in Nat
            BY <1>1, <3>2, TextFacts
          <6> QED
            BY <6>1
        <5> QED
          BY <1>3, <5>1 DEF Char
      <4>2. Child(doc.text, pos, steps[1]) = {}
        BY <1>1, <4>1, WrongKind
      <4> QED
        BY <1>1, <3>2, <4>2, NextStep
    <3> QED
      BY <1>1, <3>1, <3>2 DEF Finding
  <2> QED
    BY <2>1, <2>2 DEF SearchAt
<1> QED
  BY <1>2, <1>3

LEMMA OneLess ==
  \A o, m, i, k \in Nat :
    o = i - k /\ m = o + 1 => (k > 1 => m <= i) /\ (k > 0 => k - 1 \in Nat /\ m = i - (k - 1))
OBVIOUS

(* ... past an element of it, ...                                          *)
LEMMA SearchSkipsElement ==
  ASSUME Searchable, SearchInv, SkipElement
  PROVE  SearchAt(doc, phase', steps', pos', count')
<1> DEFINE b == Behind(pos, End)
           t == Trim(b, End)
           behind == IF b = 0 THEN 0 ELSE t
           n == NextMember(b, End)
<1>1. /\ doc \in Docs /\ IsJSON(doc.text) /\ pos \in 1 .. End /\ phase = "index" /\ count > 0
      /\ IsRest(doc, steps) /\ Counting(doc, steps, pos, count)
      /\ IF behind = 0 \/ (count > 1 /\ Char(behind, End) \notin {",", NUL}) THEN Refuse
         ELSE pos' = NextMember(behind, End) /\ count' = count - 1 /\ steps' = steps /\ phase' = phase
  BY DEF Searchable, SearchInv, SearchAt, SkipElement
<1>2. PICK c \in 1 .. Len(doc.text) :
        /\ Led(doc)[Done(doc, steps)] = {c} /\ doc.text[c] = "[" /\ steps # <<>> /\ steps[1].name \notin Names
        /\ pos \in In(doc.text, c) /\ (doc.text[pos] \in Starts \/ doc.text[pos] = "]") /\ count \in Nat
        /\ Ord(c, pos) = steps[1].index - count
  BY <1>1, Zenon DEF Counting, Ord
<1>3. c \in Lefts
  BY <1>2, InLefts
<1>4. pos \in Nat /\ Ord(c, pos) \in Nat /\ steps[1].index \in Nat
  BY <1>1, <1>2, <1>3, InNat, OrdIs, NextStep
<1>5. ASSUME NEW p \in In(doc.text, c), doc.text[p] = "]", Ord(c, p) <= steps[1].index
      PROVE  Leads(doc) = {}
  <2>1. doc.text[p] \in Right
    BY <1>5 DEF Right
  <2>2. Child(doc.text, c, steps[1]) = {}
    BY <1>1, <1>2, <1>3, <1>4, <1>5, <2>1, IndexNone
  <2> QED
    BY <1>1, <1>2, <2>2, NextStep
<1>6. CASE doc.text[pos] = "]"
  <2>1. Char(pos, End) = "]"
    BY <1>1, <1>2, <1>3, <1>6, InText
  <2>2. b = 0
    BY <2>1 DEF Behind, Left, Names
  <2>3. phase' = "refused"
    BY <1>1, <2>2 DEF Refuse
  <2>4. Ord(c, pos) <= steps[1].index
    BY <1>2, <1>4
  <2> QED
    BY <1>2, <1>5, <1>6, <2>3, <2>4 DEF SearchAt
<1>7. CASE doc.text[pos] \in Starts
  <2>1. /\ b # 0 /\ NextMember(t, End) = n /\ n \in In(doc.text, c) /\ pos < n /\ t \in In(doc.text, c)
        /\ \/ doc.text[t] = "]" /\ n = t
           \/ doc.text[t] = "," /\ doc.text[n] \in Starts
        /\ \A x \in In(doc.text, c) : pos < x /\ x < n => doc.text[x] = ","
    <3>1. /\ b # 0 /\ NextMember(t, End) = n /\ n \in In(doc.text, c) /\ pos < n /\ t \in In(doc.text, c)
          /\ \/ doc.text[t] = Partner("[") /\ n = t
             \/ doc.text[t] = "," /\ doc.text[n] \in IF "[" = "[" THEN Starts ELSE Names
          /\ \A x \in In(doc.text, c) : pos < x /\ x < n => doc.text[x] = ","
      BY <1>1, <1>2, <1>3, <1>7, NextItem
    <3>2. Partner("[") = "]"
      BY DEF Partner
    <3> HIDE DEF b, n, t
    <3> QED
      BY <3>1, <3>2
  <2>2. behind = t /\ t # 0
    <3>1. t \in 1 .. Len(doc.text)
      BY <1>1, <1>3, <2>1, InText
    <3>2. t # 0
      BY <3>1
    <3> HIDE DEF b, t
    <3> QED
      BY <2>1, <3>2
  <2>3. Char(t, End) = doc.text[t]
    BY <1>1, <1>3, <2>1, InText
  <2>4. n \in Nat /\ t \in Nat
    BY <1>1, <1>3, <2>1, InNat
  <2> HIDE DEF b, t, n, behind
  <2>5. Ord(c, n) = Ord(c, pos) + 1
    <3>1. pos \in ElementsIn(doc.text, c)
      BY <1>2, <1>7 DEF ElementsIn
    <3>2. \A x \in ElementsIn(doc.text, c) : ~ (pos < x /\ x < n)
      <4> SUFFICES ASSUME NEW x \in ElementsIn(doc.text, c), pos < x /\ x < n PROVE FALSE
        OBVIOUS
      <4>1. x \in In(doc.text, c) /\ doc.text[x] \in Starts
        BY DEF ElementsIn
      <4>2. doc.text[x] = ","
        BY <2>1, <4>1
      <4> QED
        BY <4>1, <4>2 DEF Starts, Values, Left
    <3> QED
      BY <1>1, <1>3, <2>1, <2>4, <3>1, <3>2, OrdNext
  <2>6. /\ count > 1 => Ord(c, n) <= steps[1].index
        /\ count - 1 \in Nat /\ Ord(c, n) = steps[1].index - (count - 1)
    <3> DEFINE o == Ord(c, pos)
               m == Ord(c, n)
               i == steps[1].index
    <3>1. m \in Nat
      BY <1>1, <1>3, <2>4, OrdIs
    <3>2. o \in Nat /\ i \in Nat /\ count \in Nat /\ count > 0 /\ o = i - count /\ m = o + 1
      BY <1>1, <1>2, <1>4, <2>5
    <3> HIDE DEF o, m, i
    <3>3. (count > 1 => m <= i) /\ count - 1 \in Nat /\ m = i - (count - 1)
      BY <3>1, <3>2, OneLess
    <3> QED
      BY <3>3 DEF m, i
  <2>7. CASE count > 1 /\ doc.text[t] # ","
    <3>1. doc.text[t] = "]" /\ n = t
      BY <2>1, <2>7
    <3>2. Char(t, End) \notin {",", NUL}
      BY <2>3, <3>1 DEF NUL
    <3>3. phase' = "refused"
      BY <1>1, <2>2, <2>7, <3>2 DEF Refuse
    <3>4. Ord(c, n) <= steps[1].index
      BY <2>6, <2>7
    <3>5. Leads(doc) = {}
      BY <1>5, <2>1, <3>1, <3>4
    <3> QED
      BY <3>3, <3>5 DEF SearchAt
  <2>8. CASE ~ (count > 1 /\ doc.text[t] # ",")
    <3>1. pos' = n /\ count' = count - 1 /\ steps' = steps /\ phase' = "index"
      BY <1>1, <2>1, <2>2, <2>3, <2>8
    <3>2. doc.text[n] \in Starts \/ doc.text[n] = "]"
      BY <2>1
    <3>3. Counting(doc, steps, n, count - 1)
      <4> DEFINE left == count - 1
      <4>1. left \in Nat /\ Ord(c, n) = steps[1].index - left
        BY <2>6
      <4> HIDE DEF left
      <4>2. Counting(doc, steps, n, left)
        BY <1>2, <2>1, <3>2, <4>1, Zenon DEF Counting, Ord
      <4> QED
        BY <4>2 DEF left
    <3> QED
      BY <1>1, <3>1, <3>3 DEF SearchAt
  <2> QED
    BY <2>7, <2>8
<1> QED
  BY <1>2, <1>6, <1>7

(* ... from the element asked for on, ...                                  *)
LEMMA SearchAtIndex ==
  ASSUME Searchable, SearchInv, AtIndex
  PROVE  SearchAt(doc, phase', steps', pos', count')
<1>1. /\ doc \in Docs /\ IsJSON(doc.text) /\ phase = "index" /\ count <= 0
      /\ IsRest(doc, steps) /\ Counting(doc, steps, pos, count)
      /\ steps' = Tail(steps) /\ phase' = "find" /\ pos' = pos
  BY DEF Searchable, SearchInv, SearchAt, AtIndex
<1>2. PICK c \in 1 .. Len(doc.text) :
        /\ Led(doc)[Done(doc, steps)] = {c} /\ doc.text[c] = "[" /\ steps # <<>> /\ steps[1].name \notin Names
        /\ pos \in In(doc.text, c) /\ (doc.text[pos] \in Starts \/ doc.text[pos] = "]") /\ count \in Nat
        /\ Ord(c, pos) = steps[1].index - count
  BY <1>1, Zenon DEF Counting, Ord
<1>3. c \in Lefts
  BY <1>2, InLefts
<1>4. steps[1].index \in Nat /\ IsRest(doc, Tail(steps)) /\ pos \in 1 .. Len(doc.text)
  BY <1>1, <1>2, <1>3, NextStep, InText
<1>5. Ord(c, pos) = steps[1].index
  <2>1. count = 0
    BY <1>1, <1>2
  <2> QED
    BY <1>2, <1>4, <2>1
<1>6. Led(doc)[Done(doc, Tail(steps))] = Child(doc.text, c, steps[1])
  BY <1>1, <1>2, NextStep
<1> DEFINE step == steps[1]
<1>7. step.name \notin Names /\ step.index \in Nat /\ Ord(c, pos) = step.index
  BY <1>2, <1>4, <1>5
<1> HIDE DEF step
<1>8. CASE doc.text[pos] \in Starts
  <2>1. pos \in ElementsIn(doc.text, c)
    BY <1>2, <1>8 DEF ElementsIn
  <2>2. Child(doc.text, c, step) = {pos}
    BY <1>1, <1>2, <1>3, <1>7, <2>1, IndexChild
  <2>3. Finding(doc, Tail(steps), pos)
    BY <1>4, <1>6, <2>2 DEF Finding, step
  <2> QED
    BY <1>1, <1>4, <2>3 DEF SearchAt
<1>9. CASE doc.text[pos] = "]"
  <2>1. doc.text[pos] \in Right /\ doc.text[pos] \notin Left
    BY <1>9 DEF Right, Left
  <2>2. Ord(c, pos) <= step.index
    BY <1>7
  <2>3. Child(doc.text, c, step) = {}
    BY <1>1, <1>2, <1>3, <1>7, <2>1, <2>2, IndexNone
  <2>4. Finding(doc, Tail(steps), pos)
    BY <1>6, <2>1, <2>3 DEF Finding, step
  <2> QED
    BY <1>1, <1>4, <2>4 DEF SearchAt
<1> QED
  BY <1>2, <1>8, <1>9

LEMMA LeadsFrom ==
  ASSUME doc \in Docs, IsRest(doc, <<>>), NEW p, Led(doc)[Done(doc, <<>>)] = {p}
  PROVE  Leads(doc) = IF doc.text[p] = "[" THEN {p} ELSE {}
<1>1. Done(doc, <<>>) = Len(doc.path)
  BY LedFacts DEF Done
<1> QED
  BY <1>1 DEF Leads

(* ... and at the end of the path.                                         *)
LEMMA SearchFound ==
  ASSUME Searchable, SearchInv, Found
  PROVE  SearchAt(doc, phase', steps', pos', count')
<1>1. /\ doc \in Docs /\ pos \in 1 .. End /\ phase = "find" /\ steps = <<>>
      /\ IsRest(doc, <<>>) /\ Finding(doc, <<>>, pos)
      /\ IF Char(pos, End) = "[" THEN phase' = "found" /\ pos' = pos ELSE Refuse
  BY DEF Searchable, SearchInv, SearchAt, Found
<1>2. ASSUME pos \in 1 .. Len(doc.text) PROVE Char(pos, End) = doc.text[pos]
  <2>1. pos < End
    BY <1>1, <1>2, TextFacts
  <2> QED
    BY <2>1 DEF Char
<1>3. CASE Char(pos, End) = "["
  <2>1. pos \in 1 .. Len(doc.text) /\ doc.text[pos] = "["
    <3>1. Char(pos, End) # NUL
      BY <1>3 DEF NUL
    <3> QED
      BY <1>1, <1>3, <3>1, CharInText, TextFacts
  <2>2. Led(doc)[Done(doc, <<>>)] = {pos}
    BY <1>1, <2>1 DEF Finding, Left
  <2>3. Leads(doc) = {pos}
    BY <1>1, <2>1, <2>2, LeadsFrom
  <2> QED
    BY <1>1, <1>3, <2>1, <2>3 DEF SearchAt, AllFound
<1>4. CASE Char(pos, End) # "["
  <2>1. phase' = "refused"
    BY <1>1, <1>4 DEF Refuse
  <2>2. Leads(doc) = {}
    <3>1. CASE Led(doc)[Done(doc, <<>>)] = {}
      BY <1>1, <3>1, Nowhere
    <3>2. CASE Led(doc)[Done(doc, <<>>)] = {pos} /\ pos \in 1 .. Len(doc.text)
      BY <1>1, <1>2, <1>4, <3>2, LeadsFrom
    <3> QED
      BY <1>1, <3>1, <3>2 DEF Finding
  <2> QED
    BY <2>1, <2>2 DEF SearchAt
<1> QED
  BY <1>3, <1>4

(* The path begins at the first token, if there is one.                    *)
LEMMA LedStart ==
  ASSUME doc \in Docs
  PROVE  LET p == Trim(1, End)
         IN IF p = End THEN Led(doc)[0] = {} ELSE Led(doc)[0] = {p} /\ p \in 1 .. Len(doc.text)
<1> DEFINE p == Trim(1, End)
           T == Tokens(doc.text)
           Roots == {x \in T : Prev(doc.text, x) = 0}
<1>1. End \in Nat /\ Len(doc.text) = End - 1 /\ End >= 1 /\ DOMAIN doc.text = 1 .. Len(doc.text)
  BY TextFacts
<1>2. p \in 1 .. End /\ (p = End \/ p \notin SpacesAt) /\ \A r \in 1 .. p - 1 : r \in SpacesAt
  <2>1. 1 \in 1 .. End /\ End \in 1 .. End
    BY <1>1
  <2> QED
    BY <2>1, TrimFacts
<1>3. Led(doc)[0] = Roots
  BY LedFacts
<1> HIDE DEF p
<1>4. CASE p = End
  <2>1. T = {}
    <3> SUFFICES ASSUME NEW x \in T PROVE FALSE
      OBVIOUS
    <3>1. x \in 1 .. Len(doc.text) /\ doc.text[x] \notin Space
      BY <1>1 DEF Tokens
    <3>2. x \in 1 .. p - 1
      BY <1>1, <1>4, <3>1
    <3> QED
      BY <1>2, <3>1, <3>2 DEF SpacesAt
  <2>2. Roots = {}
    BY <2>1
  <2> QED
    BY <1>3, <1>4, <2>2 DEF p
<1>5. CASE p # End
  <2>1. p \in 1 .. Len(doc.text)
    BY <1>1, <1>2, <1>5
  <2>2. p \in T
    BY <1>1, <1>2, <1>5, <2>1 DEF Tokens, SpacesAt
  <2>3. Prev(doc.text, p) = 0
    <3>1. 0 \in 0 .. p - 1 /\ \A x \in 0 + 1 .. p - 1 : x \in SpacesAt
      BY <1>2, <2>1
    <3> QED
      BY <2>1, <3>1, PrevIs
  <2>4. \A x \in T : Prev(doc.text, x) = 0 => x = p
    BY <2>2, <2>3, PrevOnce
  <2> HIDE DEF T
  <2>5. Roots = {p}
    BY <2>2, <2>3, <2>4
  <2> QED
    BY <1>3, <1>5, <2>1, <2>5 DEF p
<1> QED
  BY <1>4, <1>5

LEMMA SearchInvInit ==
  ASSUME GivenWellWritten
  PROVE  Init => SearchInv
<1> SUFFICES ASSUME Init, doc.form = "array" PROVE SearchInv
  BY DEF SearchInv, SearchAt
<1>1. /\ doc \in Docs /\ pos = Trim(1, End) /\ steps = doc.path
      /\ phase = IF doc.path # <<>> THEN "find" ELSE IF doc.parts > 1 THEN "cut" ELSE "found"
  BY DEF Init
<1>2. ~ (doc.parts > 1) /\ doc.path \in Seq([name : STRING, index : Nat]) /\ Len(doc.path) \in Nat
  BY <1>1, DocsAssumption DEF IsPath
<1>3. Done(doc, doc.path) = 0
  BY <1>2 DEF Done
<1>4. IF pos = End THEN Led(doc)[0] = {} ELSE Led(doc)[0] = {pos} /\ pos \in 1 .. Len(doc.text)
  BY <1>1, LedStart
<1>5. pos \in 1 .. Len(doc.text) => pos # End
  BY <1>1, TextFacts
<1>6. CASE doc.path # <<>>
  <2>1. IsRest(doc, steps)
    <3>1. \A k \in 1 .. Len(doc.path) : doc.path[k] = doc.path[0 + k]
      OBVIOUS
    <3> QED
      BY <1>1, <1>2, <1>3, <1>6, <3>1 DEF IsRest
  <2>2. Finding(doc, steps, pos)
    BY <1>1, <1>3, <1>4, <1>5 DEF Finding
  <2> QED
    BY <1>1, <1>6, <2>1, <2>2 DEF SearchInv, SearchAt
<1>7. CASE doc.path = <<>>
  <2>1. Len(doc.path) = 0 /\ phase = "found"
    BY <1>1, <1>2, <1>7
  <2>2. Leads(doc) = {p \in Led(doc)[0] : doc.text[p] = "["}
    BY <2>1 DEF Leads
  <2>3. AllFound(doc, pos)
    BY <1>4, <1>5, <2>2 DEF AllFound
  <2> QED
    BY <2>1, <2>3 DEF SearchInv, SearchAt
<1> QED
  BY <1>6, <1>7

LEMMA BracketInText ==
  ASSUME doc \in Docs, pos \in 1 .. End
  PROVE  Char(pos, End) = "[" <=> pos \in 1 .. Len(doc.text) /\ doc.text[pos] = "["
<1>1. ASSUME Char(pos, End) = "[" PROVE pos \in 1 .. Len(doc.text) /\ doc.text[pos] = "["
  <2>1. Char(pos, End) # NUL
    BY <1>1 DEF NUL
  <2> QED
    BY <1>1, <2>1, CharInText, TextFacts
<1>2. ASSUME pos \in 1 .. Len(doc.text), doc.text[pos] = "[" PROVE Char(pos, End) = "["
  <2>1. pos < End
    BY <1>2, TextFacts
  <2> QED
    BY <1>2, <2>1 DEF Char
<1> QED
  BY <1>1, <1>2

LEMMA SearchInvNext ==
  ASSUME GivenWellWritten, OpenInv, SearchInv, [Next]_vars
  PROVE  SearchInv'
<1>1. doc \in Docs /\ WellWritten(doc) /\ pos \in 1 .. End
  BY DEF OpenInv, GivenWellWritten
<1>2. doc' = doc
  BY DEF Next, Open, Search, EnterClass, SameName, OtherName, EnterIndex, SkipElement, AtIndex, Found, Given,
         Cut, CutAll, StartArray, StartLines, Begin, Dereference, Step, Copy, vars
<1>3. SUFFICES ASSUME doc.form = "array" PROVE SearchAt(doc, phase', steps', pos', count')
  BY <1>2 DEF SearchInv, SearchAt
<1>4. /\ phase \in {"find", "name", "index", "found", "refused", "iterate"}
      /\ phase \in {"find", "name", "index"} => IsRest(doc, steps)
      /\ phase = "found" => AllFound(doc, pos)
  BY <1>3 DEF SearchInv, SearchAt
<1>5. CASE Search
  <2>1. phase \in {"find", "name", "index"}
    BY <1>5 DEF Search, EnterClass, SameName, OtherName, EnterIndex, SkipElement, AtIndex, Found
  <2>2. doc.path # <<>>
    BY <1>4, <2>1 DEF IsRest
  <2>3. Searchable
    BY <1>1, <1>3, <2>2 DEF WellWritten, Searchable
  <2> QED
    BY <1>5, <2>3, SearchEntersClass, SearchSameName, SearchOtherName, SearchEntersIndex, SearchSkipsElement,
       SearchAtIndex, SearchFound DEF Search
<1>6. CASE StartArray
  <2>1. phase = "found" /\ pos' = pos
    BY <1>6 DEF StartArray, Begin
  <2>2. CASE Char(pos, End) = "["
    <3>1. phase' = "iterate"
      BY <1>6, <2>2 DEF StartArray, Begin
    <3>2. pos \in 1 .. Len(doc.text) /\ Leads(doc) = {pos}
      BY <1>1, <1>4, <2>1, <2>2, BracketInText DEF AllFound
    <3> QED
      BY <2>1, <3>1, <3>2 DEF SearchAt
  <2>3. CASE Char(pos, End) # "["
    <3>1. phase' = "refused"
      BY <1>6, <2>3 DEF StartArray
    <3>2. Leads(doc) = {}
      BY <1>1, <1>4, <2>1, <2>3, BracketInText DEF AllFound
    <3> QED
      BY <3>1, <3>2 DEF SearchAt
  <2> QED
    BY <2>2, <2>3
<1>7. CASE Cut \/ CutAll \/ StartLines
  BY <1>3, <1>4, <1>7 DEF Cut, CutAll, StartLines
<1>8. CASE UNCHANGED <<phase, steps, pos, count>>
  BY <1>8 DEF SearchInv
<1>9. Search \/ StartArray \/ (Cut \/ CutAll \/ StartLines) \/ UNCHANGED <<phase, steps, pos, count>>
  BY DEF Next, Open, Dereference, Step, Copy, vars
<1> QED
  BY <1>5, <1>6, <1>7, <1>8, <1>9

(* What has been found is the list.                                        *)
LEMMA ListIsFound ==
  ASSUME GivenWellWritten, OpenInv, SearchInv
  PROVE  FindsTheList
<1> SUFFICES ASSUME doc.form = "array"
             PROVE  /\ phase = "refused" => doc.list = 0
                    /\ phase = "iterate" \/ (phase = "found" /\ Char(pos, End) = "[") => pos = doc.list
  BY DEF FindsTheList
<1>1. doc \in Docs /\ pos \in 1 .. End /\ Leads(doc) = IF doc.list = 0 THEN {} ELSE {doc.list}
  BY DEF OpenInv, GivenWellWritten, WellWritten
<1>2. /\ phase = "refused" => Leads(doc) = {}
      /\ phase = "found" => AllFound(doc, pos)
      /\ phase = "iterate" => Leads(doc) = {pos}
  BY DEF SearchInv, SearchAt
<1>3. ASSUME Leads(doc) = {} PROVE doc.list = 0
  BY <1>1, <1>3
<1>4. ASSUME Leads(doc) = {pos} PROVE pos = doc.list
  BY <1>1, <1>4
<1>5. phase = "found" /\ Char(pos, End) = "[" => Leads(doc) = {pos}
  BY <1>1, <1>2, BracketInText DEF AllFound
<1> QED
  BY <1>2, <1>3, <1>4, <1>5

(***************************************************************************)
(* In every well-written document a path leads to the array that it names, *)
(* through classes and arrays of any depth, past any names and elements,   *)
(* and is refused if it names none.                                        *)
(***************************************************************************)
THEOREM PathsCorrect ==
  ASSUME GivenWellWritten
  PROVE  Spec => []FindsTheList
<1>1. Init => CutInv /\ OpenInv /\ SearchInv
  BY CutInvInit, OpenInvInit, SearchInvInit
<1>2. CutInv /\ OpenInv /\ SearchInv /\ [Next]_vars => (CutInv /\ OpenInv /\ SearchInv)'
  BY CutInvNext, OpenInvNext, SearchInvNext
<1>3. OpenInv /\ SearchInv => FindsTheList
  BY ListIsFound
<1> QED
  BY <1>1, <1>2, <1>3, PTL DEF Spec

-----------------------------------------------------------------------------
(* What the iterators do, as the stream of elements sees it.               *)

(* Where the iterators are, once there are any.                            *)
AllPlaced == its \in [Iterators -> Iter] /\ \A i \in Iterators : Placed(its[i])

LEMMA IterateIsPlaced ==
  ASSUME OpenInv, IterInv, FindsTheList
  PROVE  phase = "iterate" => AllPlaced
<1> SUFFICES ASSUME phase = "iterate" PROVE AllPlaced
  OBVIOUS
<1>1. OnList
  BY DEF FindsTheList, OnList
<1> QED
  BY <1>1 DEF IterInv, AllPlaced

LEMMA BegunIsPlaced ==
  ASSUME OpenInv, IterInv, FindsTheList
  PROVE  Begun => phase = "iterate" /\ AllPlaced
BY IterateIsPlaced DEF Begun, OpenInv, Idle

LEMMA Mapped ==
  ASSUME AllPlaced
  PROVE  /\ Reached = [i \in Iterators |-> Before(its[i].first)]
         /\ Limits = [i \in Iterators |-> Before(its[i].last)]
         /\ Known = {i \in Iterators : its[i].skip # 0}
         /\ \A i \in Iterators : Begun /\ (ES!Live(i) <=> Good(its[i]))
<1>1. ASSUME NEW i \in Iterators PROVE Begun
  <2>1. DOMAIN its = Iterators
    BY DEF AllPlaced
  <2>2. DOMAIN <<>> = {}
    OBVIOUS
  <2> QED
    BY <1>1, <2>1, <2>2 DEF Begun
<1>2. Reached = [i \in Iterators |-> Before(its[i].first)]
  BY <1>1, Zenon DEF Reached
<1>3. Limits = [i \in Iterators |-> Before(its[i].last)]
  BY <1>1, Zenon DEF Limits
<1>4. Known = {i \in Iterators : its[i].skip # 0}
  BY <1>1 DEF Known
<1>5. ASSUME NEW i \in Iterators PROVE ES!Live(i) <=> Good(its[i])
  <2>1. Good(its[i]) <=> Before(its[i].first) < Before(its[i].last)
    BY <1>5, FrontOfIterators DEF AllPlaced
  <2>2. Reached[i] = Before(its[i].first) /\ Limits[i] = Before(its[i].last)
    BY <1>2, <1>3, <1>5, Zenon
  <2> QED
    BY <2>1, <2>2, Zenon DEF ES!Live
<1> QED
  BY <1>1, <1>2, <1>3, <1>4, <1>5

LEMMA EqualHolds ==
  ASSUME OpenInv, IterInv, FindsTheList
  PROVE  EqualAtSameElement
<1> SUFFICES ASSUME Begun, NEW i \in Iterators, NEW j \in Iterators
             PROVE  Equal(i, j) <=> \/ ES!Live(i) /\ ES!Live(j) /\ Before(its[i].first) = Before(its[j].first)
                                    \/ ~ES!Live(i) /\ ~ES!Live(j)
  BY Zenon DEF EqualAtSameElement
<1>1. AllPlaced
  BY BegunIsPlaced
<1>2. Placed(its[i]) /\ Placed(its[j])
  BY <1>1 DEF AllPlaced
<1>3. (ES!Live(i) <=> Good(its[i])) /\ (ES!Live(j) <=> Good(its[j]))
  BY <1>1, Mapped
<1>4. Elements \in SUBSET (1 .. End - 1) /\ End \in Nat
  BY <1>2, ListFacts DEF Placed
<1>5. ASSUME Good(its[i]), Good(its[j]), Before(its[i].first) = Before(its[j].first)
      PROVE  its[i].first = its[j].first
  <2>1. its[i].first \in Elements /\ its[j].first \in Elements
    BY <1>2, <1>5, GoodIsBeforeEnd
  <2> QED
    BY <1>4, <1>5, <2>1, BeforeTells
<1> QED
  BY <1>3, <1>5, Zenon DEF Equal

(***************************************************************************)
(* Iterators are equal where they are at the same element, and all at      *)
(* their end are, in every well-written document.                          *)
(***************************************************************************)
THEOREM EqualityCorrect ==
  ASSUME GivenWellWritten
  PROVE  Spec => []EqualAtSameElement
<1>1. DocInv /\ FindsTheList => EqualAtSameElement
  BY EqualHolds DEF DocInv
<1> QED
  BY <1>1, DocInvHolds, PathsCorrect, PTL
(* What the stream sees of the document does not change.                   *)
LEMMA MappedKept ==
  ASSUME doc' = doc
  PROVE  /\ Suitable' = Suitable /\ Uncut' = Uncut
         /\ \A p : Before(p)' = Before(p)
         /\ \A it : Placed(it)' <=> Placed(it)
<1>1. End' = End
  BY DEF End
<1>2. Elements' = Elements
  BY <1>1 DEF Elements, End
<1>3. Close' = Close
  BY DEF Close, Closes
<1>4. \A p : Before(p)' = Before(p)
  BY <1>2, Zenon DEF Before
<1>5. \A p, last : Char(p, last)' = Char(p, last)
  BY DEF Char
<1>6. \A p, last : Trim(p, last)' = Trim(p, last)
  BY DEF Trim, Char
<1>7. \A p : Suits(p)' = Suits(p)
  BY <1>1, <1>5, <1>6 DEF Suits
<1>8. \A k : Nth(k)' = Nth(k)
  BY <1>2 DEF Nth, Before
<1>9. Suitable' = Suitable
  BY <1>2, <1>7, <1>8 DEF Suitable
<1>10. \A it : Placed(it)' <=> Placed(it)
  BY <1>1, <1>2, <1>3 DEF Placed, Reads, Lo, Hi
<1> QED
  BY <1>4, <1>9, <1>10 DEF Uncut

LEMMA AnsweredFacts ==
  /\ answer[1] # "element" => Answered = answer
  /\ answer'[1] # "element" => Answered' = answer'
  /\ doc' = doc => \A i, p : answer' = <<"element", i, p>> => Answered' = <<"element", i, Before(p + 1)>>
<1>1. ASSUME doc' = doc, NEW i, NEW p, answer' = <<"element", i, p>> PROVE Answered' = <<"element", i, Before(p + 1)>>
  <2>1. answer'[1] = "element" /\ answer'[2] = i /\ answer'[3] = p
    BY <1>1
  <2>2. \A q : Before(q)' = Before(q)
    BY <1>1, MappedKept
  <2> QED
    BY <2>1, <2>2 DEF Answered
<1> QED
  BY <1>1 DEF Answered

LEMMA StreamInit ==
  ASSUME Init
  PROVE  ES!Init
<1>1. its = <<>> /\ answer = <<"none">> /\ ~ Begun
  BY DEF Init, Begun
<1>2. Reached = [i \in Iterators |-> 0] /\ Limits = [i \in Iterators |-> 0] /\ Known = {}
  BY <1>1 DEF Reached, Limits, Known
<1>3. \A k \in DOMAIN Suitable : Suitable[k] \in BOOLEAN
  <2>1. \A p : Suits(p) \in BOOLEAN
    BY DEF Suits
  <2>2. \A k \in 1 .. Cardinality(Elements) : Suitable[k] = Suits(Nth(k))
    BY Zenon DEF Suitable
  <2>3. DOMAIN Suitable = 1 .. Cardinality(Elements)
    BY Zenon DEF Suitable
  <2> QED
    BY <2>1, <2>2, <2>3, Zenon
<1>4. Uncut \in BOOLEAN
  BY DEF Uncut
<1>5. Answered = <<"none">>
  BY <1>1, AnsweredFacts
<1> QED
  BY <1>2, <1>3, <1>4, <1>5, Zenon DEF ES!Init
(***************************************************************************)
(* One iterator is changed, and the others stay.                           *)
(***************************************************************************)
LEMMA OneChanged ==
  ASSUME doc' = doc, AllPlaced, NEW x \in Iterators, NEW to, Placed(to), its' = [its EXCEPT ![x] = to]
  PROVE  /\ Reached' = [Reached EXCEPT ![x] = Before(to.first)]
         /\ Limits' = [Limits EXCEPT ![x] = Before(to.last)]
         /\ Known' = IF to.skip # 0 THEN Known \cup {x} ELSE Known \ {x}
<1>1. its \in [Iterators -> Iter] /\ its' \in [Iterators -> Iter] /\ to \in Iter
  BY DEF AllPlaced, Placed
<1>2. its'[x] = to /\ \A y \in Iterators : y # x => its'[y] = its[y]
  BY <1>1
<1>3. \A p : Before(p)' = Before(p)
  BY MappedKept
<1>4. Begun'
  <2>1. DOMAIN its' = Iterators /\ DOMAIN <<>> = {}
    BY <1>1
  <2> QED
    BY <2>1 DEF Begun
<1>5. /\ Reached = [i \in Iterators |-> Before(its[i].first)]
      /\ Limits = [i \in Iterators |-> Before(its[i].last)]
      /\ Known = {i \in Iterators : its[i].skip # 0}
  BY Mapped
<1>6. Reached' = [i \in Iterators |-> Before(its'[i].first)]
  BY <1>3, <1>4 DEF Reached
<1>7. Limits' = [i \in Iterators |-> Before(its'[i].last)]
  BY <1>3, <1>4 DEF Limits
<1>8. Known' = {i \in Iterators : its'[i].skip # 0}
  BY <1>4 DEF Known
<1>9. Reached' = [Reached EXCEPT ![x] = Before(to.first)]
  BY <1>2, <1>5, <1>6
<1>10. Limits' = [Limits EXCEPT ![x] = Before(to.last)]
  BY <1>2, <1>5, <1>7
<1>11. Known' = IF to.skip # 0 THEN Known \cup {x} ELSE Known \ {x}
  <2>1. CASE to.skip # 0
    BY <1>2, <1>5, <1>8, <2>1
  <2>2. CASE to.skip = 0
    BY <1>2, <1>5, <1>8, <2>2
  <2> QED
    BY <2>1, <2>2
<1> QED
  BY <1>9, <1>10, <1>11

LEMMA NoneChanged ==
  ASSUME doc' = doc, its' = its
  PROVE  Reached' = Reached /\ Limits' = Limits /\ Known' = Known
<1>1. Begun' = Begun /\ \A p : Before(p)' = Before(p)
  BY MappedKept DEF Begun
<1> QED
  BY <1>1 DEF Reached, Limits, Known

(***************************************************************************)
(* A new iterator is where the stream has none of its elements in front of *)
(* it, if the document is not cut, and all of them in front of its end.    *)
(***************************************************************************)
LEMMA StreamBegin ==
  ASSUME GivenWellWritten, CutInv, OpenInv, OnList, StartArray \/ StartLines, phase' = "iterate"
  PROVE  ES!Begin
<1> DEFINE FromStart(it) ==
      /\ Placed(it) /\ it.skip = 0
      /\ doc.parts <= 1 => it.last = End /\ Before(it.first) = 0
<1>1. doc \in Docs /\ WellWritten(doc) /\ phase = "found" /\ doc' = doc /\ Idle /\ answer' = <<"begun">>
  BY DEF OpenInv, GivenWellWritten, StartArray, StartLines, Begin
<1>2. ASSUME NEW last, Reads(last), Lo \in Lo .. Hi(last) PROVE Before(Lo) = 0
  <2>1. Elements \in SUBSET (1 .. End - 1) /\ End \in Nat /\ Lo \in Nat /\ Lo >= 1 /\ Hi(last) \in Lo .. last
        /\ last \in 1 .. End
    BY <1>2, ListFacts
  <2>2. \A p \in 1 .. last - 1 : p \in Elements <=> p \in Lo .. Hi(last) - 1 /\ p \in ValuesAt
    BY <1>2, ListFacts
  <2>3. 1 \in 1 .. End /\ Lo \in 1 .. End /\ \A r \in 1 .. Lo - 1 : r \notin Elements
    <3> DEFINE l == Lo
               h == Hi(last)
    <3> HIDE DEF l, h, Elements
    <3>1. l \in Nat /\ l >= 1 /\ h \in l .. last /\ last \in 1 .. End /\ End \in Nat
      BY <2>1 DEF l, h
    <3>2. 1 \in 1 .. End /\ l \in 1 .. End
      BY <3>1
    <3>3. ASSUME NEW r \in 1 .. l - 1 PROVE r \in 1 .. last - 1 /\ r \notin l .. h - 1
      BY <3>1, <3>3
    <3>4. \A r \in 1 .. l - 1 : r \notin Elements
      BY <2>2, <3>3 DEF l, h
    <3> QED
      BY <3>2, <3>4 DEF l
  <2>4. Before(Lo) = Before(1)
    BY <2>1, <2>3, BeforeSame
  <2>5. {e \in Elements : e < 1} = {}
    <3> HIDE DEF Elements
    <3>1. ASSUME NEW e \in Elements PROVE ~ (e < 1)
      BY <2>1, <3>1
    <3> QED
      BY <3>1
  <2>6. Before(1) = 0
    BY <2>5, FS_EmptySet DEF Before
  <2> QED
    BY <2>4, <2>6
<1>3. ASSUME NEW i \in Iterators PROVE FromStart(its'[i])
  <2>1. CASE StartArray
    <3>1. /\ doc.form = "array" /\ Char(pos, End) = "["
          /\ its' \in [Iterators -> {New(pos + 1, End)}]
      BY <2>1 DEF StartArray, Begin
    <3>2. doc.list = pos /\ doc.list # 0 /\ doc.form # "lines" /\ pos \in 1 .. End
      BY <1>1, <3>1 DEF OnList, OpenInv
    <3>3. Reads(End) /\ Lo = pos + 1
      <4>1. End \in 1 .. End
        BY <1>1, TextFacts
      <4> QED
        BY <1>1, <3>1, <3>2, <4>1 DEF Reads, Lo
    <3>4. Lo \in Lo .. Hi(End)
      <4>1. Lo \in Nat /\ Hi(End) \in Lo .. End /\ End \in Nat
        BY <3>3, ListFacts
      <4> HIDE DEF Lo
      <4> QED
        BY <4>1
    <3>5. Placed(New(Lo, End)) /\ Before(New(Lo, End).first) = Before(Lo) /\ New(Lo, End).skip = 0 /\ New(Lo, End).last = End
      BY <3>3, <3>4, NewIsPlaced DEF New
    <3>6. Before(Lo) = 0
      BY <1>2, <3>3, <3>4
    <3>7. its'[i] = New(Lo, End)
      BY <3>1, <3>3
    <3> QED
      BY <3>5, <3>6, <3>7, Zenon
  <2>2. CASE StartLines
    <3>1. /\ doc.form = "lines"
          /\ its' \in [Iterators -> {New(ranges[k].first, ranges[k].last) : k \in DOMAIN ranges}]
      BY <2>2 DEF StartLines, Begin
    <3>2. PICK k \in DOMAIN ranges : its'[i] = New(ranges[k].first, ranges[k].last)
      BY <3>1
    <3> DEFINE first == ranges[k].first
               last == ranges[k].last
    <3>3. first \in 1 .. last /\ Reads(last) /\ (doc.parts <= 1 => last = End)
      BY <1>1, <3>1, PartReads
    <3>4. Lo = 1 /\ Hi(last) = last
      BY <3>1 DEF Lo, Hi
    <3>5. doc.parts <= 1 => first = 1
      BY <1>1, <3>1 DEF OpenInv
    <3>6. its'[i] = New(first, last)
      BY <3>2
    <3> HIDE DEF first, last
    <3>7. first \in Lo .. Hi(last)
      BY <3>3, <3>4
    <3>8. Placed(its'[i]) /\ its'[i].skip = 0 /\ its'[i].last = last /\ Before(its'[i].first) = Before(first)
      BY <3>1, <3>3, <3>6, <3>7, NewIsPlaced DEF New
    <3>9. ASSUME doc.parts <= 1 PROVE Before(first) = 0
      <4>1. first = Lo
        BY <3>4, <3>5, <3>9
      <4>2. Lo \in Lo .. Hi(last)
        BY <3>7, <4>1
      <4> QED
        BY <1>2, <3>3, <4>1, <4>2, Zenon
    <3> QED
      BY <3>3, <3>8, <3>9, Zenon
  <2> QED
    BY <2>1, <2>2
<1>4. Suitable' = Suitable /\ Uncut' = Uncut /\ \A p : Before(p)' = Before(p)
  BY <1>1, MappedKept
<1>5. ASSUME NEW i \in Iterators PROVE Begun'
  <2>1. DOMAIN its' = Iterators /\ DOMAIN <<>> = {}
    BY DEF StartArray, StartLines, Begin
  <2> QED
    BY <1>5, <2>1 DEF Begun
<1>6. ASSUME NEW i \in Iterators
      PROVE  Reached'[i] = Before(its'[i].first) /\ Limits'[i] = Before(its'[i].last)
  BY <1>4, <1>5, <1>6 DEF Reached, Limits
<1>7. Known' = {} /\ Known = {}
  BY <1>1, <1>3, <1>5 DEF Known, Begun, Idle
<1>8. ASSUME NEW i \in Iterators
      PROVE  /\ Reached'[i] <= Limits'[i] /\ Limits'[i] <= Len(Suitable)
             /\ Uncut => Reached'[i] = 0 /\ Limits'[i] = Len(Suitable)
  <2> DEFINE it == its'[i]
             n == Cardinality(Elements)
  <2>1. FromStart(it)
    BY <1>3
  <2>2. Reads(it.last) /\ it.last \in 1 .. End
    BY <2>1, FrontOfIterators DEF Placed
  <2>3. Before(it.first) <= Before(it.last) /\ Before(it.last) <= n /\ n \in Nat /\ Before(End) = n
    BY <2>1, <2>2, FrontOfIterators, ElementsBounded
  <2>4. Len(Suitable) = n
    <3>1. n \in Nat
      BY <2>3
    <3> HIDE DEF n
    <3>2. Suitable = [k \in 1 .. n |-> Suits(Nth(k))]
      BY Zenon DEF Suitable, n
    <3> QED
      BY <3>1, <3>2
  <2>5. Uncut => Before(it.first) = 0 /\ Before(it.last) = n
    BY <2>1, <2>3 DEF Uncut
  <2> HIDE DEF it, n
  <2> QED
    BY <1>6, <2>3, <2>4, <2>5 DEF it
<1>9. Answered = <<"none">> /\ Answered' = <<"begun">>
  BY <1>1, AnsweredFacts DEF Idle
<1> QED
  BY <1>4, <1>7, <1>8, <1>9, Zenon DEF ES!Begin

(***************************************************************************)
(* A dereference, a step and a copy are those of the stream.               *)
(***************************************************************************)
LEMMA ElementIsGood ==
  ASSUME AllPlaced, NEW i \in Iterators, Good(its[i])
  PROVE  /\ Suitable[Reached[i] + 1] = Suits(its[i].first)
         /\ Before(its[i].first + 1) = Reached[i] + 1
<1>1. Placed(its[i]) /\ Reads(its[i].last) /\ its[i].first \in Elements /\ its[i].first \in 1 .. End - 1
  BY GoodIsBeforeEnd DEF AllPlaced, Placed
<1>2. Elements \in SUBSET (1 .. End - 1) /\ End \in Nat
  BY <1>1, ListFacts
<1>3. Reached[i] = Before(its[i].first)
  BY Mapped
<1> DEFINE p == its[i].first
<1> HIDE DEF p
<1>4. p \in Elements /\ p + 1 \in p + 1 .. End
  <2>1. p \in Elements /\ p \in 1 .. End - 1
    BY <1>1 DEF p
  <2> QED
    BY <1>2, <2>1
<1>5. Suitable[Before(p) + 1] = Suits(p)
  BY <1>2, <1>4, NthElement
<1>6. Before(p + 1) = Before(p) + 1
  <2>1. \A r \in p + 1 .. (p + 1) - 1 : r \notin Elements
    BY <1>1, <1>2 DEF p
  <2> QED
    BY <1>2, <1>4, <2>1, BeforeStep
<1> QED
  BY <1>3, <1>5, <1>6 DEF p

LEMMA StreamDereference ==
  ASSUME AllPlaced, NEW i \in Iterators, Dereference(i)
  PROVE  ES!Dereference(i)
<1> DEFINE it == its[i]
<1>1. doc' = doc /\ its \in [Iterators -> Iter] /\ Placed(it) /\ it \in Iter
  BY DEF Dereference, AllPlaced
<1>2. Suitable' = Suitable /\ Uncut' = Uncut
  BY <1>1, MappedKept
<1>3. ES!Live(i) <=> Good(it)
  BY Mapped
<1>4. Good(it) => (Suitable[Reached[i] + 1] <=> Parsed(it) # 0)
  BY <1>1, ElementIsGood, ParsedSuits
<1>5. CASE Good(it) /\ Parsed(it) # 0
  <2> DEFINE to == [it EXCEPT !.skip = Parsed(it)]
  <2>1. its' = [its EXCEPT ![i] = to] /\ answer' = <<"element", i, it.first>>
    BY <1>1, <1>5 DEF Dereference
  <2>2. Placed(to) /\ to.first = it.first /\ to.last = it.last /\ to.skip # 0
    BY <1>1, <1>5, ParsedSuits, KeepsIsPlaced
  <2> HIDE DEF to, it
  <2>3. /\ Reached' = [Reached EXCEPT ![i] = Before(to.first)]
        /\ Limits' = [Limits EXCEPT ![i] = Before(to.last)]
        /\ Known' = Known \cup {i}
    BY <1>1, <2>1, <2>2, OneChanged
  <2>4. Reached[i] = Before(it.first) /\ Limits[i] = Before(it.last)
    BY Mapped DEF it
  <2>5. Reached' = Reached /\ Limits' = Limits
    BY <2>2, <2>3, <2>4 DEF Reached, Limits
  <2>6. Answered' = <<"element", i, Reached[i] + 1>>
    <3>1. Answered' = <<"element", i, Before(it.first + 1)>>
      BY <1>1, <2>1, AnsweredFacts
    <3> QED
      BY <1>5, <3>1, ElementIsGood DEF it
  <2> QED
    BY <1>2, <1>3, <1>4, <1>5, <2>3, <2>5, <2>6, Zenon DEF ES!Dereference
<1>6. CASE ~ (Good(it) /\ Parsed(it) # 0)
  <2>1. its' = its /\ answer' = <<"error", i>>
    BY <1>6 DEF Dereference
  <2>2. Reached' = Reached /\ Limits' = Limits /\ Known' = Known
    BY <1>1, <2>1, NoneChanged
  <2>3. Answered' = <<"error", i>>
    BY <2>1, AnsweredFacts
  <2> QED
    BY <1>2, <1>3, <1>4, <1>6, <2>2, <2>3, Zenon DEF ES!Dereference
<1> QED
  BY <1>5, <1>6
LEMMA StreamStep ==
  ASSUME AllPlaced, NEW i \in Iterators, Step(i)
  PROVE  ES!Step(i)
<1> DEFINE it == its[i]
           behind == IF it.skip # 0 THEN it.skip ELSE Passed(it)
           to == [it EXCEPT !.first = NextMember(behind, it.last), !.skip = 0]
<1>1. doc' = doc /\ its \in [Iterators -> Iter] /\ Placed(it) /\ it \in Iter
  BY DEF Step, AllPlaced
<1>2. Suitable' = Suitable /\ Uncut' = Uncut
  BY <1>1, MappedKept
<1>3. ES!Live(i) <=> Good(it)
  BY Mapped
<1>4. i \in Known <=> it.skip # 0
  BY Mapped
<1>5. CASE ~ (Good(it) /\ behind # 0)
  <2>1. its' = its /\ answer' = <<"error", i>>
    BY <1>5 DEF Step
  <2>2. Reached' = Reached /\ Limits' = Limits /\ Known' = Known
    BY <1>1, <2>1, NoneChanged
  <2>3. Answered' = <<"error", i>>
    BY <2>1, AnsweredFacts
  <2>4. it.skip = 0
    <3>1. CASE ~ Good(it)
      BY <1>1, <3>1, GoodIsBeforeEnd DEF Placed
    <3>2. CASE behind = 0
      BY <3>2
    <3> QED
      BY <1>5, <3>1, <3>2
  <2>5. ES!Refuses(i)
    BY <1>4, <2>2, <2>3, <2>4, Zenon DEF ES!Refuses
  <2> QED
    BY <1>2, <2>2, <2>5, Zenon DEF ES!Step
<1>6. CASE Good(it) /\ behind # 0
  <2>1. its' = [its EXCEPT ![i] = to] /\ answer' = <<"moved", i>>
    BY <1>1, <1>6 DEF Step
  <2>2. Answered' = <<"moved", i>>
    BY <2>1, AnsweredFacts
  <2>3. CASE Follows(it.first, behind, it.last)
    <3>1. Placed(to) /\ to.last = it.last /\ to.skip = 0 /\ Before(to.first) = Before(it.first) + 1
      BY <1>1, <1>6, <2>3, MovedIsPlaced
    <3> HIDE DEF to, it
    <3>2. /\ Reached' = [Reached EXCEPT ![i] = Before(to.first)]
          /\ Limits' = [Limits EXCEPT ![i] = Before(to.last)]
          /\ Known' = Known \ {i}
      BY <1>1, <2>1, <3>1, OneChanged
    <3>3. Reached[i] = Before(it.first) /\ Limits[i] = Before(it.last)
      BY Mapped DEF it
    <3>4. Limits' = Limits
      BY <3>1, <3>2, <3>3 DEF Limits
    <3>5. Reached' = [Reached EXCEPT ![i] = @ + 1]
      BY <3>1, <3>2, <3>3, Zenon
    <3>6. ES!Moves(i)
      BY <2>2, <3>2, <3>5, Zenon DEF ES!Moves
    <3> QED
      BY <1>2, <1>3, <1>6, <3>4, <3>6, Zenon DEF ES!Step
  <2>4. CASE it.skip = 0 /\ behind = it.first /\ ~ Suits(it.first)
    <3>1. NextMember(it.first, it.last) = it.first
      BY <1>1, <1>6, StaysAtElement
    <3>2. to = it
      <4>1. to = [it EXCEPT !.first = it.first, !.skip = it.skip]
        BY <2>4, <3>1
      <4> QED
        BY <1>1, <4>1 DEF Iter
    <3>3. its' = its
      BY <1>1, <2>1, <3>2
    <3>4. Reached' = Reached /\ Limits' = Limits /\ Known' = Known
      BY <1>1, <3>3, NoneChanged
    <3>5. ~ Suitable[Reached[i] + 1]
      BY <1>6, <2>4, ElementIsGood
    <3>6. ES!Stays(i)
      BY <1>3, <1>4, <1>6, <2>2, <2>4, <3>4, <3>5, Zenon DEF ES!Stays
    <3> QED
      BY <1>2, <1>3, <1>6, <3>4, <3>6, Zenon DEF ES!Step
  <2>5. Follows(it.first, behind, it.last) \/ (it.skip = 0 /\ behind = it.first /\ ~ Suits(it.first))
    <3>1. CASE it.skip # 0
      BY <1>1, <3>1 DEF Placed, Follows
    <3>2. CASE it.skip = 0
      BY <1>1, <1>6, <3>2, PassedFacts
    <3> QED
      BY <3>1, <3>2
  <2> QED
    BY <2>3, <2>4, <2>5
<1> QED
  BY <1>5, <1>6

LEMMA StreamCopy ==
  ASSUME AllPlaced, NEW i \in Iterators, NEW j \in Iterators, Copy(i, j)
  PROVE  ES!Copy(i, j)
<1> DEFINE it == its[i]
<1>1. doc' = doc /\ Placed(it) /\ its' = [its EXCEPT ![j] = it] /\ answer' = <<"copied", j>>
  BY DEF Copy, AllPlaced
<1>2. Suitable' = Suitable /\ Uncut' = Uncut
  BY <1>1, MappedKept
<1>3. Answered' = <<"copied", j>>
  BY <1>1, AnsweredFacts
<1>4. Reached[i] = Before(it.first) /\ Limits[i] = Before(it.last) /\ (i \in Known <=> it.skip # 0)
  BY Mapped
<1> HIDE DEF it
<1>5. /\ Reached' = [Reached EXCEPT ![j] = Before(it.first)]
      /\ Limits' = [Limits EXCEPT ![j] = Before(it.last)]
      /\ Known' = IF it.skip # 0 THEN Known \cup {j} ELSE Known \ {j}
  BY <1>1, OneChanged
<1> QED
  BY <1>2, <1>3, <1>4, <1>5, Zenon DEF ES!Copy

LEMMA StreamNext ==
  ASSUME GivenWellWritten, DocInv, FindsTheList, [Next]_vars
  PROVE  [ES!Next]_(ES!vars)
<1>1. ASSUME doc' = doc, its' = its, answer' = answer PROVE UNCHANGED ES!vars
  <2>1. Suitable' = Suitable /\ Uncut' = Uncut /\ Reached' = Reached /\ Limits' = Limits /\ Known' = Known
    BY <1>1, MappedKept, NoneChanged
  <2>2. Answered' = Answered
    BY <1>1, MappedKept DEF Answered
  <2> QED
    BY <2>1, <2>2 DEF ES!vars
<1>2. CASE UNCHANGED vars
  BY <1>1, <1>2 DEF vars
<1>3. CASE Search \/ Cut \/ CutAll
  <2>1. doc' = doc /\ its' = its /\ answer' = answer
    BY <1>3 DEF Search, EnterClass, SameName, OtherName, EnterIndex, SkipElement, AtIndex, Found, Given, Cut, CutAll
  <2> QED
    BY <1>1, <2>1
<1>4. CASE StartArray \/ StartLines
  <2>1. CASE phase' = "iterate"
    <3>1. OnList
      <4>1. CASE StartArray
        <5>1. phase = "found" /\ Char(pos, End) = "["
          BY <2>1, <4>1 DEF StartArray
        <5> QED
          BY <5>1 DEF FindsTheList, OnList
      <4>2. CASE StartLines
        BY <4>2 DEF StartLines, OnList
      <4> QED
        BY <1>4, <4>1, <4>2
    <3>2. ES!Begin
      BY <1>4, <2>1, <3>1, StreamBegin DEF DocInv
    <3> QED
      BY <3>2 DEF ES!Next
  <2>2. CASE phase' # "iterate"
    <3>1. doc' = doc /\ its' = its /\ answer' = answer
      BY <1>4, <2>2 DEF StartArray, StartLines, Begin
    <3> QED
      BY <1>1, <3>1
  <2> QED
    BY <2>1, <2>2
<1>5. ASSUME NEW i \in Iterators, Dereference(i) \/ Step(i) \/ (\E j \in Iterators \ {i} : Copy(i, j))
      PROVE  ES!Next
  <2>1. AllPlaced
    BY <1>5, IterateIsPlaced DEF DocInv, Dereference, Step, Copy
  <2>2. ES!Dereference(i) \/ ES!Step(i) \/ (\E j \in Iterators \ {i} : ES!Copy(i, j))
    BY <1>5, <2>1, StreamDereference, StreamStep, StreamCopy
  <2> QED
    BY <2>2 DEF ES!Next
<1> QED
  BY <1>2, <1>3, <1>4, <1>5 DEF Next, Open

(***************************************************************************)
(* The iterators answer the elements of the document in order, each once   *)
(* and all of them, however they are dereferenced, stepped and copied, for *)
(* every number of iterators and every well-written document.              *)
(***************************************************************************)
THEOREM Refinement ==
  ASSUME GivenWellWritten
  PROVE  Spec => Stream
<1>1. Init => ES!Init
  BY StreamInit
<1>2. DocInv /\ FindsTheList /\ [Next]_vars => [ES!Next]_(ES!vars)
  BY StreamNext
<1> QED
  BY <1>1, <1>2, DocInvHolds, PathsCorrect, PTL DEF Spec, Stream, ES!Spec

-----------------------------------------------------------------------------
(* The parts have every element.                                           *)

Holds(part, p) == part.first <= p /\ p < part.last

(* Every element in front of p is in a part.                               *)
Covered(p) == \A e \in Elements : e < p => \E k \in DOMAIN ranges : Holds(ranges[k], e)

CoverInv ==
  /\ doc.parts <= 1 => ranges = IF doc.parts = 1 THEN <<[first |-> 1, last |-> End]>> ELSE <<>>
  /\ doc.parts > 1 /\ phase = "cut" => Covered(pos)
  /\ doc.parts > 1 /\ phase # "cut" => Covered(End)

LEMMA LinesElements ==
  ASSUME doc \in Docs, WellWritten(doc), doc.form = "lines"
  PROVE  Elements = ValuesAt /\ Elements \in SUBSET (1 .. End - 1)
<1>1. doc.list = 1 /\ Len(doc.text) = End - 1 /\ End \in Nat
  BY TextFacts DEF WellWritten, HasLines
<1>2. Elements = {p \in 1 .. (End - 1) : doc.text[p] \in Values}
  BY <1>1 DEF Elements
<1> QED
  BY <1>1, <1>2 DEF ValuesAt

LEMMA CoverKept ==
  ASSUME doc' = doc, ranges' = ranges, CoverInv, phase # "cut", phase' # "cut"
  PROVE  CoverInv'
<1>1. End' = End
  BY DEF End
<1>2. Elements' = Elements
  BY <1>1 DEF Elements, End
<1> QED
  BY <1>1, <1>2 DEF CoverInv, Covered

LEMMA CoverInvInit ==
  ASSUME GivenWellWritten
  PROVE  Init => CoverInv
<1> SUFFICES ASSUME Init PROVE CoverInv
  OBVIOUS
<1>1. doc \in Docs /\ WellWritten(doc) /\ doc.parts \in Nat
  BY DocsAssumption DEF Init, GivenWellWritten
<1>2. ASSUME doc.parts > 1 PROVE phase = "cut" /\ Covered(pos)
  <2>1. doc.form = "lines" /\ doc.path = <<>>
    BY <1>1, <1>2, DocsAssumption
  <2>2. phase = "cut" /\ pos = 1
    BY <1>2, <2>1 DEF Init
  <2>3. Elements \in SUBSET (1 .. End - 1) /\ End \in Nat
    BY <1>1, <2>1, LinesElements, TextFacts
  <2>4. ASSUME NEW e \in Elements PROVE ~ (e < 1)
    <3> HIDE DEF Elements
    <3> QED
      BY <2>3, <2>4
  <2> QED
    BY <2>2, <2>4 DEF Covered
<1>3. ~ (doc.parts > 1) => ranges = IF doc.parts = 1 THEN <<[first |-> 1, last |-> End]>> ELSE <<>>
  BY DEF Init
<1>4. doc.parts <= 1 <=> ~ (doc.parts > 1)
  BY <1>1
<1> QED
  BY <1>2, <1>3, <1>4 DEF CoverInv

LEMMA CutCovers ==
  ASSUME GivenWellWritten, CutInv, OpenInv, CoverInv, Cut
  PROVE  CoverInv'
<1>1. doc \in Docs /\ WellWritten(doc) /\ doc' = doc /\ phase = "cut" /\ phase' = phase /\ doc.parts > 1 /\ doc.parts \in Nat
  BY DocsAssumption DEF Cut, OpenInv, GivenWellWritten
<1>2. doc.form = "lines"
  BY <1>1, DocsAssumption
<1>3. Elements = ValuesAt /\ Elements \in SUBSET (1 .. End - 1) /\ End \in Nat /\ pos \in 1 .. End - 1
  BY <1>1, <1>2, LinesElements, TextFacts DEF Cut, OpenInv
<1>4. PICK next \in pos + 1 .. End, last \in pos .. End :
        /\ last \in pos .. next
        /\ \A r \in last .. next - 1 : doc.text[r] \in Space
        /\ pos' = next
        /\ ranges' = IF pos < last THEN Append(ranges, [first |-> pos, last |-> last]) ELSE ranges
  BY <1>1, CutPlaces
<1> DEFINE part == [first |-> pos, last |-> last]
<1>5. part.first = pos /\ part.last = last
  OBVIOUS
<1>6. ranges' = IF pos < last THEN Append(ranges, part) ELSE ranges
  BY <1>4
<1>7. ranges \in Seq(Part) /\ Covered(pos)
  BY <1>1 DEF CutInv, CoverInv
<1> HIDE DEF part
<1>8. ASSUME NEW k \in DOMAIN ranges PROVE k \in DOMAIN ranges' /\ ranges'[k] = ranges[k]
  BY <1>6, <1>7, <1>8
<1>9. ASSUME NEW e \in Elements, e < next PROVE \E k \in DOMAIN ranges' : Holds(ranges'[k], e)
  <2>1. CASE e < pos
    <3>1. PICK k \in DOMAIN ranges : Holds(ranges[k], e)
      BY <1>7, <1>9, <2>1 DEF Covered
    <3> QED
      BY <1>8, <3>1
  <2>2. CASE ~ (e < pos) /\ e < last
    <3>1. pos < last /\ pos <= e
      <4> HIDE DEF Elements
      <4> QED
        BY <1>3, <1>4, <2>2
    <3>2. Len(ranges) + 1 \in DOMAIN ranges' /\ ranges'[Len(ranges) + 1] = part
      BY <1>6, <1>7, <3>1
    <3> QED
      BY <1>5, <2>2, <3>1, <3>2 DEF Holds
  <2>3. CASE ~ (e < last)
    <3>1. e \in last .. next - 1 /\ e \in 1 .. End - 1
      <4> HIDE DEF Elements
      <4> QED
        BY <1>3, <1>4, <1>9, <2>3
    <3>2. e \in SpacesAt
      BY <1>1, <1>4, <3>1, TextFacts DEF SpacesAt
    <3> QED
      BY <1>3, <3>2, KindsApart
  <2> QED
    BY <2>1, <2>2, <2>3
<1>10. End' = End
  BY <1>1 DEF End
<1>11. Elements' = Elements
  BY <1>1, <1>10 DEF Elements, End
<1>12. Covered(pos)'
  BY <1>4, <1>9, <1>11 DEF Covered
<1>13. ~ (doc'.parts <= 1) /\ phase' = "cut"
  BY <1>1
<1> QED
  BY <1>12, <1>13 DEF CoverInv

LEMMA CoverInvNext ==
  ASSUME GivenWellWritten, CutInv, OpenInv, CoverInv, [Next]_vars
  PROVE  CoverInv'
<1>1. CASE Cut
  BY <1>1, CutCovers
<1>2. CASE CutAll
  <2>1. /\ doc' = doc /\ ranges' = ranges /\ pos = End /\ phase = "cut" /\ phase' # "cut" /\ doc.parts > 1
        /\ doc.parts \in Nat /\ doc \in Docs
    BY <1>2, DocsAssumption DEF CutAll, OpenInv
  <2>2. Covered(End)
    BY <2>1 DEF CoverInv
  <2>3. End' = End
    BY <2>1 DEF End
  <2>4. Elements' = Elements
    BY <2>1, <2>3 DEF Elements, End
  <2>5. Covered(End)'
    BY <2>1, <2>2, <2>3, <2>4 DEF Covered
  <2>6. ~ (doc'.parts <= 1) /\ phase' # "cut"
    BY <2>1
  <2> QED
    BY <2>5, <2>6 DEF CoverInv
<1>3. CASE Search
  <2>1. doc' = doc /\ ranges' = ranges /\ phase # "cut" /\ phase' # "cut"
    BY <1>3 DEF Search, EnterClass, ReadName, SameName, OtherName, EnterIndex, SkipElement, AtIndex, Found, Refuse, Given
  <2> QED
    BY <2>1, CoverKept
<1>4. CASE StartArray \/ StartLines
  <2>1. doc' = doc /\ ranges' = ranges /\ phase # "cut" /\ phase' # "cut"
    BY <1>4 DEF StartArray, StartLines, Begin
  <2> QED
    BY <2>1, CoverKept
<1>5. ASSUME NEW i \in Iterators, NEW j \in Iterators, Dereference(i) \/ Step(i) \/ Copy(i, j)
      PROVE  CoverInv'
  <2>1. doc' = doc /\ ranges' = ranges /\ phase # "cut" /\ phase' # "cut"
    BY <1>5 DEF Dereference, Step, Copy
  <2> QED
    BY <2>1, CoverKept
<1>6. CASE UNCHANGED vars
  <2>1. doc' = doc /\ ranges' = ranges /\ pos' = pos /\ phase' = phase
    BY <1>6 DEF vars
  <2>2. End' = End
    BY <2>1 DEF End
  <2>3. Elements' = Elements
    BY <2>1, <2>2 DEF Elements, End
  <2> QED
    BY <2>1, <2>2, <2>3 DEF CoverInv, Covered
<1> QED
  BY <1>1, <1>2, <1>3, <1>4, <1>5, <1>6 DEF Next, Open
LEMMA RangesAreParts ==
  ASSUME GivenWellWritten, CutInv, OpenInv, CoverInv
  PROVE  /\ Apart(doc.text, ranges, End)
         /\ \A k \in DOMAIN ranges : ranges[k].first \in Nat /\ ranges[k].last \in Nat
<1>1. doc \in Docs /\ WellWritten(doc) /\ doc.parts \in Nat /\ Len(doc.text) = End - 1 /\ End \in Nat /\ doc.text # <<>>
      /\ doc.text \in Seq(STRING)
  BY DocsAssumption, TextFacts DEF OpenInv, GivenWellWritten, WellWritten
<1>2. Apart(doc.text, ranges, End)
  <2>1. CASE doc.parts > 1
    BY <2>1 DEF CutInv
  <2>2. CASE doc.parts = 1
    <3> DEFINE all == [first |-> 1, last |-> End]
    <3>1. ranges = <<all>> /\ all.first = 1 /\ all.last = End
      BY <2>2 DEF CoverInv
    <3>2. 1 \in 1 .. Len(doc.text) /\ End \in 1 .. Len(doc.text) + 1 /\ 1 < End /\ End <= End
      <4>1. Len(doc.text) # 0
        BY <1>1
      <4> QED
        BY <1>1, <4>1
    <3> HIDE DEF all
    <3>3. Within(doc.text, all, End)
      BY <3>1, <3>2 DEF Within, AtLine
    <3>4. DOMAIN ranges = {1} /\ ranges[1] = all
      BY <3>1
    <3> QED
      BY <3>3, <3>4 DEF Apart
  <2>3. CASE doc.parts < 1
    <3>1. ranges = <<>>
      BY <1>1, <2>3 DEF CoverInv
    <3>2. DOMAIN ranges = {}
      BY <3>1
    <3> QED
      BY <3>2 DEF Apart
  <2> QED
    BY <1>1, <2>1, <2>2, <2>3
<1> QED
  BY <1>1, <1>2 DEF Apart, Within

LEMMA PartsCoverHolds ==
  ASSUME GivenWellWritten, CutInv, OpenInv, CoverInv
  PROVE  PartsCover
<1> SUFFICES ASSUME phase \in {"empty", "found", "iterate"}, doc.form = "lines"
             PROVE  PartsCover
  BY DEF PartsCover
<1>1. doc \in Docs /\ WellWritten(doc) /\ doc.parts \in Nat /\ End \in Nat
  BY DocsAssumption, TextFacts DEF OpenInv, GivenWellWritten
<1>2. Apart(doc.text, ranges, End) /\ \A k \in DOMAIN ranges : ranges[k].first \in Nat /\ ranges[k].last \in Nat
  BY RangesAreParts
<1>3. Elements \in SUBSET (1 .. End - 1)
  BY <1>1, LinesElements
<1>4. ASSUME NEW e \in Elements PROVE \E k \in DOMAIN ranges : Holds(ranges[k], e)
  <2>1. e \in 1 .. End - 1
    BY <1>3
  <2>2. CASE doc.parts > 1
    <3>1. Covered(End)
      BY <2>2 DEF CoverInv
    <3>2. e < End
      BY <1>1, <2>1
    <3> QED
      BY <3>1, <3>2 DEF Covered
  <2>3. CASE doc.parts <= 1
    <3> DEFINE all == [first |-> 1, last |-> End]
    <3>1. ranges = <<all>> /\ all.first = 1 /\ all.last = End
      BY <2>3 DEF OpenInv
    <3> HIDE DEF all
    <3>2. 1 \in DOMAIN ranges /\ ranges[1] = all
      BY <3>1
    <3>3. Holds(all, e)
      BY <1>1, <2>1, <3>1 DEF Holds
    <3> QED
      BY <3>2, <3>3
  <2> QED
    BY <1>1, <2>2, <2>3
<1>5. ASSUME NEW e \in Elements, NEW j \in DOMAIN ranges, NEW k \in DOMAIN ranges, Holds(ranges[j], e), Holds(ranges[k], e)
      PROVE  j = k
  <2>1. e \in Int /\ j \in Int /\ k \in Int
    <3>1. e \in 1 .. End - 1
      BY <1>3
    <3>2. DOMAIN ranges \in SUBSET Int
      <4>1. CASE doc.parts <= 1
        BY <4>1 DEF OpenInv
      <4>2. CASE doc.parts > 1
        <5>1. ranges \in Seq(Part)
          BY <4>2 DEF CutInv
        <5> QED
          BY <5>1
      <4> QED
        BY <1>1, <4>1, <4>2
    <3> QED
      BY <3>1, <3>2
  <2>2. j < k => ranges[j].last <= ranges[k].first
    BY <1>2 DEF Apart
  <2>3. k < j => ranges[k].last <= ranges[j].first
    BY <1>2 DEF Apart
  <2> QED
    BY <1>2, <1>5, <2>1, <2>2, <2>3 DEF Holds
<1>6. ASSUME NEW e \in Elements
      PROVE  Cardinality({k \in DOMAIN ranges : ranges[k].first <= e /\ e < ranges[k].last}) = 1
  <2>1. PICK k \in DOMAIN ranges : Holds(ranges[k], e)
    BY <1>4
  <2>2. {x \in DOMAIN ranges : ranges[x].first <= e /\ e < ranges[x].last} = {k}
    BY <1>5, <2>1 DEF Holds
  <2> QED
    BY <2>2, FS_Singleton
<1>7. ASSUME NEW k \in 2 .. Len(ranges)
      PROVE  ranges[k - 1].last <= ranges[k].first
  <2>1. DOMAIN ranges = 1 .. Len(ranges) /\ Len(ranges) \in Nat
    <3>1. CASE doc.parts <= 1
      BY <3>1 DEF OpenInv
    <3>2. CASE doc.parts > 1
      <4>1. ranges \in Seq(Part)
        BY <3>2 DEF CutInv
      <4> QED
        BY <4>1
    <3> QED
      BY <1>1, <3>1, <3>2
  <2>2. k - 1 \in DOMAIN ranges /\ k \in DOMAIN ranges /\ k - 1 < k
    BY <1>7, <2>1
  <2> QED
    BY <1>2, <2>2 DEF Apart
<1> QED
  BY <1>6, <1>7, Zenon DEF PartsCover

LEMMA TypeHolds ==
  ASSUME GivenWellWritten, CutInv, OpenInv, IterInv, CoverInv, FindsTheList
  PROVE  TypeOK
<1>1. Len(doc.text) = End - 1 /\ End \in Nat
  BY TextFacts DEF OpenInv
<1>2. \A k \in DOMAIN ranges : ranges[k].first < ranges[k].last /\ ranges[k].last <= End
  BY RangesAreParts DEF Apart, Within
<1>3. ASSUME Begun, NEW i \in Iterators
      PROVE  its[i].first \in 1 .. its[i].last /\ its[i].skip \in {0} \cup (its[i].first + 1) .. End
  <2> DEFINE f == its[i].first
             l == its[i].last
             s == its[i].skip
             h == Hi(l)
  <2>1. Placed(its[i])
    BY <1>3, BegunIsPlaced DEF AllPlaced
  <2>2. /\ Reads(l) /\ f \in Lo .. h
        /\ s # 0 => s \in f + 1 .. h
    BY <2>1 DEF Placed
  <2>3. Lo \in Nat /\ Lo >= 1 /\ h \in Lo .. l /\ l \in 1 .. End
    BY <2>2, ListFacts
  <2> HIDE DEF f, l, s, h
  <2>4. f \in 1 .. l /\ (s # 0 => s \in f + 1 .. End)
    BY <1>1, <2>2, <2>3
  <2> QED
    BY <2>4 DEF f, l, s
<1> QED
  BY <1>2, <1>3 DEF TypeOK, OpenInv

(***************************************************************************)
(* What the iterators are given is what was asked for: the path leads to   *)
(* the array it names, they read only what is in the text, and the parts   *)
(* of a document of lines have each element of it in one of them, in       *)
(* order, and begin with lines, into however many parts it is cut.         *)
(***************************************************************************)
THEOREM GivesCorrect ==
  ASSUME GivenWellWritten
  PROVE  Spec => []GivesTheElements
<1>1. Init => CoverInv
  BY CoverInvInit
<1>2. DocInv /\ CoverInv /\ [Next]_vars => CoverInv'
  BY CoverInvNext DEF DocInv
<1>3. DocInv /\ CoverInv /\ FindsTheList => GivesTheElements
  <2> SUFFICES ASSUME DocInv, CoverInv, FindsTheList PROVE GivesTheElements
    OBVIOUS
  <2>1. TypeOK /\ PartsCover
    BY TypeHolds, PartsCoverHolds DEF DocInv
  <2>2. CutsAtLines
    BY RangesAreParts DEF DocInv, Apart, Within, AtLine, CutsAtLines
  <2> QED
    BY <2>1, <2>2 DEF GivesTheElements
<1> QED
  BY <1>1, <1>2, <1>3, DocInvHolds, PathsCorrect, PTL DEF Spec

===============================================================================
