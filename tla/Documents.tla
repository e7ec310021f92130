------------------------------ MODULE Documents ------------------------------
(***************************************************************************)
(* Iterators over the elements of a document: over an array, which may be  *)
(* the member of a class that a path leads to, over lines, and over the    *)
(* parts of a document of lines that is cut into several.                  *)
(*                                                                         *)
(* A text is a sequence of tokens: brackets, commas, colons, white space,  *)
(* names "k" "l" "m", and the values number "n", string "s", Boolean "b"   *)
(* and class "o", each as one token. It is not zero terminated, and the    *)
(* parse checked. An iterator has its place in the text and the place      *)
(* behind the element it is at, if it has parsed that.                     *)
(***************************************************************************)
EXTENDS Integers, Sequences, FiniteSets, SequencesExt, JsonText

CONSTANTS Docs, Iterators

Names == {"k", "l", "m"}

(* A step of a path is a name, or an index behind a name: where there is   *)
(* none in front of it, the rest of the path is not looked at.             *)
IsPath(path) ==
  /\ path \in Seq([name : STRING, index : Nat])
  /\ \A k \in DOMAIN path : path[k].name \notin Names => k > 1 /\ path[k - 1].name \in Names

(* Only lines are cut, and no path leads to them.                          *)
ASSUME DocsAssumption ==
  \A d \in Docs : /\ d.text \in Seq(STRING) /\ d.parts \in Nat /\ IsPath(d.path)
                  /\ d.parts > 1 => d.form = "lines" /\ d.path = <<>>

VARIABLES doc,      \* [text, form, type, path, parts, list]
          pos,      \* the cursor of the search for the path, or where the rest to cut begins
          steps,    \* the rest of the path
          count,    \* elements to skip to the one an index asks for
          phase,
          ranges,   \* the parts, each from first to before last
          its,      \* the iterators: [first, last, skip], skip = 0 if unknown
          answer
vars == <<doc, pos, steps, count, phase, ranges, its, answer>>

Token == [number |-> "n", string |-> "s", class |-> "o", bool |-> "b"]
Values == {"n", "s", "o", "b"}
End == Len(doc.text) + 1

Char(p, last) == IF p < last THEN doc.text[p] ELSE NUL
Trim(p, last) ==
  CHOOSE q \in p..last : Char(q, last) \notin Space /\ \A r \in p..(q - 1) : Char(r, last) \in Space
NextMember(p, last) ==
  LET q == Trim(p, last) IN IF Char(q, last) = "," THEN Trim(q + 1, last) ELSE q

Init ==
  /\ doc \in Docs
  /\ pos = (IF doc.form = "lines" THEN 1 ELSE Trim(1, End)) /\ steps = doc.path /\ count = 0
  /\ phase = IF doc.path # <<>> THEN "find" ELSE IF doc.parts > 1 THEN "cut" ELSE "found"
  /\ ranges = IF doc.parts = 1 THEN <<[first |-> 1, last |-> End]>> ELSE <<>>
  /\ its = <<>> /\ answer = <<"none">>

Given == <<doc, ranges, its, answer>>
Refuse == phase' = "refused" /\ UNCHANGED <<pos, steps, count>>

(* The place behind the value at p, or 0: a number needs something behind  *)
(* it, a Boolean a comma, a bracket or the end.                            *)
ClosingFrom(p) ==
  LET some(brackets, q) == Cardinality({x \in p..q : doc.text[x] \in brackets})
      ends == {q \in p..Len(doc.text) : some(Left, q) = some(Right, q)}
  IN IF ends = {} THEN 0 ELSE (CHOOSE q \in ends : \A r \in ends : q <= r) + 1
Behind(p, last) ==
  LET next == Trim(p + 1, last)
  IN CASE Char(p, last) \in Left -> ClosingFrom(p)
       [] Char(p, last) = "n" -> IF p + 1 < last THEN p + 1 ELSE 0
       [] Char(p, last) = "b" -> IF Char(next, last) \in {",", "}", "]", NUL} THEN next ELSE 0
       [] Char(p, last) \in {"s", "o"} \cup Names -> p + 1
       [] OTHER -> 0

(* A name and its colon; behind them is the value.                         *)
ReadName(place) ==
  \E p \in {place} : \E colon \in {Trim(p + 1, End)} :
    IF Char(p, End) \in Names /\ Char(colon, End) = ":"
    THEN /\ \E value \in {Trim(colon + 1, End)} : pos' = value
         /\ count' = p            \* the place of the name
         /\ phase' = "name" /\ UNCHANGED steps
    ELSE Refuse

EnterClass ==
  /\ phase = "find" /\ steps # <<>> /\ steps[1].name \in Names
  /\ IF Char(pos, End) = "{" THEN ReadName(Trim(pos + 1, End)) ELSE Refuse
  /\ UNCHANGED Given
SameName ==
  /\ phase = "name" /\ doc.text[count] = steps[1].name
  /\ steps' = Tail(steps) /\ phase' = "find"
  /\ UNCHANGED <<pos, count>> /\ UNCHANGED Given
OtherName ==
  /\ phase = "name" /\ doc.text[count] # steps[1].name
  /\ \E behind \in {Behind(pos, End)} :
       IF behind = 0 THEN Refuse ELSE ReadName(NextMember(behind, End))
  /\ UNCHANGED Given

EnterIndex ==
  /\ phase = "find" /\ steps # <<>> /\ steps[1].name \notin Names
  /\ IF Char(pos, End) = "["
     THEN pos' = Trim(pos + 1, End) /\ count' = steps[1].index /\ phase' = "index" /\ UNCHANGED steps
     ELSE Refuse
  /\ UNCHANGED Given
SkipElementLong ==     \* mutant: the comma is asked for in front of the last step, too
  /\ phase = "index" /\ count > 0
  /\ LET behind == IF Behind(pos, End) = 0 THEN 0 ELSE Trim(Behind(pos, End), End)
     IN IF behind = 0 \/ (count > 1 /\ Char(behind, End) \notin {",", NUL}) THEN Refuse
        ELSE pos' = NextMember(behind, End) /\ count' = count - 2 /\ UNCHANGED <<steps, phase>>
  /\ UNCHANGED Given
SkipElement ==         \* the comma behind the last one skipped is not asked for
  /\ phase = "index" /\ count > 0
  /\ LET behind == IF Behind(pos, End) = 0 THEN 0 ELSE Trim(Behind(pos, End), End)
     IN IF behind = 0 \/ (count > 1 /\ Char(behind, End) \notin {",", NUL}) THEN Refuse
        ELSE pos' = NextMember(behind, End) /\ count' = count - 1 /\ UNCHANGED <<steps, phase>>
  /\ UNCHANGED Given
AtIndex ==
  /\ phase = "index" /\ count <= 0
  /\ steps' = Tail(steps) /\ phase' = "find"
  /\ UNCHANGED <<pos, count>> /\ UNCHANGED Given
Found ==
  /\ phase = "find" /\ steps = <<>>
  /\ IF Char(pos, End) = "[" THEN phase' = "found" /\ UNCHANGED <<pos, steps, count>> ELSE Refuse
  /\ UNCHANGED Given

(* partition_jsonl_document: parts of about the same size that end with a  *)
(* line, without the white space behind it.                                *)
Segment == Len(doc.text) \div doc.parts
RTrimOnce(p, last) == last - 1   \* mutant: takes one character off whatever it is
RTrim(p, last) ==
  CHOOSE q \in p..last : (q = p \/ doc.text[q - 1] \notin Space) /\ \A r \in q..(last - 1) : doc.text[r] \in Space
LineEndAny(p) == p + 1         \* mutant: cuts anywhere
LineEndBefore(p) ==            \* mutant: stays in front of the end of the line
  LET ends == {q \in p..Len(doc.text) : doc.text[q] = "\n"}
  IN IF ends = {} THEN End ELSE CHOOSE q \in ends : \A r \in ends : q <= r
LineEnd(p) ==
  LET ends == {q \in p..Len(doc.text) : doc.text[q] = "\n"}
  IN IF ends = {} THEN End ELSE (CHOOSE q \in ends : \A r \in ends : q <= r) + 1
Cut ==
  /\ phase = "cut" /\ pos < End
  /\ LET short == pos + Segment >= End
         next == IF short THEN End ELSE LineEnd(pos + Segment)
         last == IF short THEN End ELSE RTrim(pos, next)
     IN /\ ranges' = IF pos < last THEN Append(ranges, [first |-> pos, last |-> last]) ELSE ranges
        /\ pos' = next
  /\ UNCHANGED <<doc, steps, count, phase, its, answer>>
CutAll ==
  /\ phase = "cut" /\ pos = End
  /\ phase' = IF ranges = <<>> THEN "empty" ELSE "found"
  /\ UNCHANGED <<doc, pos, steps, count, ranges, its, answer>>

(* The iterators start at the array found, or at parts of the lines.       *)
New(p, last) == [first |-> Trim(p, last), last |-> last, skip |-> 0]
Begin(starts) ==
  /\ its' \in [Iterators -> starts] /\ answer' = <<"begun">> /\ phase' = "iterate"
  /\ UNCHANGED <<doc, pos, steps, count, ranges>>
StartArray ==
  /\ phase = "found" /\ doc.form = "array"
  /\ IF Char(pos, End) = "[" THEN Begin({New(pos + 1, End)})
     ELSE phase' = "refused" /\ UNCHANGED <<doc, pos, steps, count, ranges, its, answer>>
StartLines ==
  /\ phase = "found" /\ doc.form = "lines"
  /\ Begin({New(ranges[k].first, ranges[k].last) : k \in DOMAIN ranges})

Good(it) == it.first < it.last /\ (doc.form = "array" => Char(it.first, it.last) # "]")

(* The end of the element an iterator is at, or 0: parsed as what it shall *)
(* be, or passed without. Not a number, the number search does not move.   *)
Parsed(it) ==
  LET next == Trim(it.first + 1, it.last)
  IN IF doc.type = "any" THEN Behind(it.first, it.last)
     ELSE IF Char(it.first, it.last) # Token[doc.type] THEN 0
     ELSE IF doc.type \in {"number", "bool"} /\ Char(next, it.last) \notin {",", "}", "]", ":", NUL} THEN 0
     ELSE IF doc.type = "string" THEN it.first + 1 ELSE next
Passed(it) ==
  IF doc.type \in {"number", "bool"}
  THEN IF Char(it.first, it.last) = "n" THEN Behind(it.first, it.last) ELSE it.first
  ELSE IF doc.type = "any" \/ Char(it.first, it.last) = Token[doc.type] THEN Behind(it.first, it.last) ELSE 0

DereferenceStepping(i) ==    \* mutant: the iterator itself is moved, not a copy
  /\ phase = "iterate"
  /\ IF Good(its[i]) /\ Parsed(its[i]) # 0
     THEN /\ its' = [its EXCEPT ![i].first = Parsed(its[i])]
          /\ answer' = <<"element", i, its[i].first>>
     ELSE answer' = <<"error", i>> /\ UNCHANGED its
  /\ UNCHANGED <<doc, pos, steps, count, phase, ranges>>
Dereference(i) ==
  /\ phase = "iterate"
  /\ IF Good(its[i]) /\ Parsed(its[i]) # 0
     THEN /\ its' = [its EXCEPT ![i].skip = Parsed(its[i])]
          /\ answer' = <<"element", i, its[i].first>>
     ELSE answer' = <<"error", i>> /\ UNCHANGED its
  /\ UNCHANGED <<doc, pos, steps, count, phase, ranges>>
Step(i) ==
  /\ phase = "iterate"
  /\ LET behind == IF its[i].skip # 0 THEN its[i].skip ELSE Passed(its[i])
     IN IF Good(its[i]) /\ behind # 0
        THEN /\ its' = [its EXCEPT ![i].first = NextMember(behind, its[i].last), ![i].skip = 0]
             /\ answer' = <<"moved", i>>
        ELSE answer' = <<"error", i>> /\ UNCHANGED its
  /\ UNCHANGED <<doc, pos, steps, count, phase, ranges>>
Copy(i, j) ==
  /\ phase = "iterate"
  /\ its' = [its EXCEPT ![j] = its[i]] /\ answer' = <<"copied", j>>
  /\ UNCHANGED <<doc, pos, steps, count, phase, ranges>>

EqualPlace(i, j) == its[i].first = its[j].first    \* mutant: iterators at an end are compared like others
Equal(i, j) ==
  IF ~Good(its[i]) THEN ~Good(its[j]) ELSE Good(its[j]) /\ its[i].first = its[j].first

Search == EnterClass \/ SameName \/ OtherName \/ EnterIndex \/ SkipElement \/ AtIndex \/ Found
Open == Search \/ Cut \/ CutAll \/ StartArray \/ StartLines
Next == \/ Open
        \/ \E i \in Iterators : Dereference(i) \/ Step(i) \/ (\E j \in Iterators \ {i} : Copy(i, j))

Spec == Init /\ [][Next]_vars /\ WF_vars(Open)
------------------------------------------------------------------------------
(* What a text means, by counting brackets. In(s, c) is what is directly   *)
(* in the container that begins at c, its closing bracket included.        *)
Starts == Values \cup Left
Tokens(s) == {p \in DOMAIN s : s[p] \notin Space}
Prev(s, p) == LET q == {x \in Tokens(s) : x < p} IN IF q = {} THEN 0 ELSE CHOOSE x \in q : \A y \in q : y <= x
Balance(s, c, q) == Cardinality({x \in c..q : s[x] \in Left}) - Cardinality({x \in c..q : s[x] \in Right})
In(s, c) == {p \in Tokens(s) : c < p /\ Balance(s, c, p - 1) = 1 /\ \A q \in c..(p - 1) : Balance(s, c, q) > 0}

(* Whether a token may be behind another in a container that open begins.  *)
Fits(open, before, token) ==
  \/ token \in Names /\ open = "{" /\ before \in {"{", ","}
  \/ token = ":" /\ open = "{" /\ before \in Names
  \/ token \in Starts /\ (IF open = "[" THEN before \in {"[", ","} ELSE before = ":")
  \/ token = "," /\ before \in Values \cup Right
  \/ token \in Right /\ token = Partner(open) /\ before \in Values \cup Right \cup {open}
IsJSON(s) ==
  \A c \in DOMAIN s : s[c] \in Left =>
    /\ \E q \in c..Len(s) : Balance(s, c, q) = 0
    /\ \A p \in In(s, c) : Fits(s[c], s[Prev(s, p)], s[p])

(* The value that a step leads to from the one at c: that of the first     *)
(* member of the name, or the element with so many in front of it.         *)
ElementsIn(s, c) == {p \in In(s, c) : s[p] \in Starts}
Child(s, c, step) ==
  IF step.name \in Names
  THEN {q \in ElementsIn(s, c) : s[c] = "{" /\
          LET name == Prev(s, Prev(s, q))
          IN s[name] = step.name /\ \A p \in In(s, c) : p < name => s[p] # step.name}
  ELSE {q \in ElementsIn(s, c) : s[c] = "[" /\ Cardinality({e \in ElementsIn(s, c) : e < q}) = step.index}
Led(d) ==
  LET led[k \in 0..Len(d.path)] ==
        IF k = 0 THEN {p \in Tokens(d.text) : Prev(d.text, p) = 0}
        ELSE UNION {Child(d.text, c, d.path[k]) : c \in led[k - 1]}
  IN led
Leads(d) == {p \in Led(d)[Len(d.path)] : d.text[p] = "["}

(* Where the elements of the document are, from how it was written.        *)
Elements ==
  LET ends == {q \in doc.list..Len(doc.text) : doc.text[q] = "]"}
      end == IF doc.form = "lines" THEN End ELSE CHOOSE q \in ends : \A r \in ends : q <= r
  IN IF doc.list = 0 THEN {} ELSE {p \in doc.list..(end - 1) : doc.text[p] \in Values}
Before(p) == Cardinality({e \in Elements : e < p})

(* Elements of the type asked for. Numbers and Booleans can be parsed only *)
(* in front of a comma, a bracket or the end, and so not in lines.         *)
Suits(p) ==
  LET next == Char(Trim(p + 1, End), End)
  IN IF doc.type = "any" THEN (doc.text[p] = "n" => p + 1 < End) /\ (doc.text[p] = "b" => next \notin Values)
     ELSE /\ doc.text[p] = Token[doc.type]
          /\ doc.type \in {"number", "bool"} => next \notin Values

(* What the iterators do with the elements: where they are among them, how *)
(* far they go, which one they have answered.                              *)
Begun == its # <<>>
Nth(k) == CHOOSE e \in Elements : Before(e) = k - 1
Suitable == [k \in 1..Cardinality(Elements) |-> Suits(Nth(k))]
Uncut == doc.parts <= 1
Reached == [i \in Iterators |-> IF Begun THEN Before(its[i].first) ELSE 0]
Limits == [i \in Iterators |-> IF Begun THEN Before(its[i].last) ELSE 0]
Known == {i \in Iterators : Begun /\ its[i].skip # 0}
Answered == IF answer[1] = "element" THEN <<"element", answer[2], Before(answer[3] + 1)>> ELSE answer
ES == INSTANCE ElementStream WITH
        good <- Suitable, whole <- Uncut, at <- Reached, until <- Limits, known <- Known, answer <- Answered
------------------------------------------------------------------------------
TypeOK ==
  /\ phase \in {"find", "name", "index", "cut", "empty", "found", "iterate", "refused"}
  /\ pos \in 1..End
  /\ \A k \in DOMAIN ranges : ranges[k].first < ranges[k].last /\ ranges[k].last <= End
  /\ Begun => \A i \in Iterators : its[i].first \in 1..its[i].last /\ its[i].skip \in {0} \cup (its[i].first + 1)..End

(* Iterators answer the elements of the document in order, each once and   *)
(* all of them, however they are dereferenced, stepped and copied.         *)
Stream == ES!Spec

(* A path leads to the array it names, or is refused if there is none; a   *)
(* document without a path is looked at only when iterators start.         *)
FindsTheList ==
  doc.form = "array" =>
    /\ phase = "refused" => doc.list = 0
    /\ phase = "iterate" \/ (phase = "found" /\ Char(pos, End) = "[") => pos = doc.list

(* The parts have every element of the document, in order and in one part. *)
PartsCover ==
  phase \in {"empty", "found", "iterate"} /\ doc.form = "lines" =>
    LET within(p) == {k \in DOMAIN ranges : ranges[k].first <= p /\ p < ranges[k].last}
    IN /\ \A e \in Elements : Cardinality(within(e)) = 1
       /\ \A k \in 2..Len(ranges) : ranges[k - 1].last <= ranges[k].first

(* No part begins within a line.                                           *)
CutsAtLines ==
  doc.parts > 1 => \A k \in DOMAIN ranges : ranges[k].first = 1 \/ doc.text[ranges[k].first - 1] = "\n"

(* What the iterators are given is what was asked for: the array at the    *)
(* end of the path, or all lines, each in one part.                        *)
GivesTheElements == TypeOK /\ FindsTheList /\ PartsCover /\ CutsAtLines

(* Iterators are equal where they are at the same element, and all at their*)
(* end are.                                                                *)
EqualAtSameElement ==
  Begun => \A i, j \in Iterators :
    Equal(i, j) <=> \/ ES!Live(i) /\ ES!Live(j) /\ Before(its[i].first) = Before(its[j].first)
                    \/ ~ES!Live(i) /\ ~ES!Live(j)

(* Every search and every partition comes to an end.                       *)
Opens == <>(phase \in {"empty", "iterate", "refused"})
------------------------------------------------------------------------------
(* Documents as they may be written: a list has values, white space, and   *)
(* commas behind values; lines have no commas; what a path is looked for   *)
(* in is JSON. Booleans alone, over which a step does not move, and numbers*)
(* at the end of a part are left out.                                      *)
IsList(text, first, last) ==
  \A p \in first..last :
    \/ text[p] \in Values \cup Space
    \/ text[p] = "," /\ \E q \in first..(p - 1) : text[q] \in Values /\ \A r \in (q + 1)..(p - 1) : text[r] \in Space

HasArray(d) ==
  /\ d.list \in DOMAIN d.text /\ d.text[d.list] = "["
  /\ \E end \in (d.list + 1)..Len(d.text) : d.text[end] = "]" /\ IsList(d.text, d.list + 1, end - 1)
HasLines(d) ==
  /\ d.list = 1 /\ d.path = <<>> /\ d.parts >= 1
  /\ \A p \in DOMAIN d.text : d.text[p] \in Values \cup Space

WellWritten(d) ==
  /\ d.text # <<>>
  /\ d.type \in {"number", "string", "class", "any"} /\ (d.parts > 1 => d.type \in {"string", "class"})
  /\ \/ /\ d.form = "array" /\ (d.path # <<>> => IsJSON(d.text))
        /\ Leads(d) = IF d.list = 0 THEN {} ELSE {d.list}
        /\ d.list = 0 \/ HasArray(d)
     \/ d.form = "lines" /\ HasLines(d)
GivenWellWritten == \A d \in Docs : WellWritten(d)
=============================================================================
