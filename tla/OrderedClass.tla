---------------------------- MODULE OrderedClass ----------------------------
(***************************************************************************)
(* Classes and tuples that are JSON arrays (json_tuple_member_list,        *)
(* json_tuple): how they are written and how they are parsed               *)
(* (daw_json_parse_class.h, daw_json_parse_value.h,                        *)
(* daw_json_serialize_impl.h, to_daw_json_string.h).                       *)
(*                                                                         *)
(* A member has the index behind the one before it, or one of its own      *)
(* (json_tuple_member).  The parser walks the array once, skipping the     *)
(* elements that belong to no member, and finally what is left.  The text  *)
(* is the one behind the opening bracket, minified; "v" is a number.  It   *)
(* is followed by a zero, as that of a std::string is.                     *)
(***************************************************************************)
EXTENDS Integers, Sequences, FiniteSets

CONSTANTS
  Given,    \* [mapping, text]: the parses of a text from elsewhere
  Written   \* [mapping, values, trailing]: the objects written and parsed again

NoIndex == -1      \* of a member without an index of its own

Token   == {"v", "null", "[", "]", ","}
Member  == [at : Nat \cup {NoIndex}, nullable : BOOLEAN]
Mapping == [form : {"class", "tuple"}, members : Seq(Member), exact : BOOLEAN]

\* A json_tuple_member of a tuple cannot be written.
ASSUME OrderedAssumption ==
  /\ Given \subseteq [mapping : Mapping, text : Seq(Token)]
  /\ Written \subseteq
       [mapping : Mapping, values : Seq({"v", "null"}), trailing : BOOLEAN]
  /\ \A w \in Written :
       /\ Len(w.values) = Len(w.mapping.members)
       /\ \A m \in DOMAIN w.values :
            /\ w.values[m] = "null" => w.mapping.members[m].nullable
            /\ w.mapping.form = "tuple" => w.mapping.members[m].at = NoIndex

VARIABLES
  mapping,
  text,       \* the text, written so far or given
  object,     \* what is written: [values, trailing], or NoObject
  member,     \* the member being written or parsed
  index,      \* array_idx, member_index, class_idx
  pos,        \* parse_state.first
  taken,      \* where the members parsed were found; 0: constructed empty
  phase       \* where control is

vars == <<mapping, text, object, member, index, pos, taken, phase>>

Phases   == {"write", "member", "skip", "value", "done", "failed"}
Finished == phase \in {"done", "failed"}
NoObject == [values |-> <<>>, trailing |-> FALSE]

Count        == Len(mapping.members)
Nullable(m)  == mapping.members[m].nullable
IsOrdered(m) == mapping.members[m].at # NoIndex

-----------------------------------------------------------------------------
(* The text.                                                               *)

At(i) == IF i \in DOMAIN text THEN text[i] ELSE "end"

\* move_next_member_or_end
MoveNext(i) == IF At(i) = "," THEN i + 1 ELSE i

Opened(i, j) == Cardinality({k \in i .. j : text[k] = "["})
Closed(i, j) == Cardinality({k \in i .. j : text[k] = "]"})

\* The position behind the bracket that closes an array whose opening bracket was
\* passed, for a cursor at i; 0 is the exception.
BehindArray(i) ==
  LET closing == {j \in i .. Len(text) : Closed(i, j) = Opened(i, j) + 1}
  IN  IF closing = {} THEN 0 ELSE (CHOOSE j \in closing : \A k \in closing : j <= k) + 1

\* skip_array, called in front of the opening bracket and behind it: a bracket at
\* the cursor is taken for the one that begins the array.
SkipArray(i) ==
  CASE At(i) = "[" -> BehindArray(i + 1)
    [] At(i) = "end" -> i
    [] OTHER -> BehindArray(i)

\* skip_value; 0 is the exception.
SkipValue(i) ==
  CASE At(i) = "v"    -> i + 1
    [] At(i) = "null" -> IF At(i + 1) \in {",", "]"} THEN i + 1 ELSE 0
    [] At(i) = "["    -> SkipArray(i)
    [] OTHER          -> 0

-----------------------------------------------------------------------------
(* Writing.                                                                *)

\* The parse begins behind the opening bracket; a tuple's behind a comma, too.
Start(t) == IF mapping.form = "tuple" /\ t # <<>> /\ t[1] = "," THEN 2 ELSE 1

Init ==
  /\ member = 1
  /\ index = 0
  /\ taken = <<>>
  /\ \/ \E g \in Given :
          /\ mapping = g.mapping
          /\ text = g.text
          /\ object = NoObject
          /\ pos = Start(text)
          /\ phase = "member"
     \/ \E w \in Written :
          /\ mapping = w.mapping
          /\ text = <<>>
          /\ object = [values |-> w.values, trailing |-> w.trailing]
          /\ pos = 1
          /\ phase = "write"

\* "null," up to the index of the member.
Fill(n) == [k \in 1 .. 2 * n |-> IF k % 2 = 1 THEN "null" ELSE ","]

Gap(m) == IF IsOrdered(m) /\ mapping.members[m].at > index
          THEN mapping.members[m].at - index ELSE 0

\* Mutant: a comma follows the last member.
CommaAfterLast(i) == IF i <= Count THEN <<",">> ELSE <<>>

\* The comma behind a member: i is the index of the next element.
CommaBehind(i) == IF i < Count THEN <<",">> ELSE <<>>

\* to_json_ordered_str
WriteMember ==
  /\ phase = "write"
  /\ member <= Count
  /\ index' = index + Gap(member) + 1
  /\ text' = text \o Fill(Gap(member)) \o <<object.values[member]>> \o CommaBehind(index')
  /\ member' = member + 1
  /\ UNCHANGED <<mapping, object, pos, taken, phase>>

\* The closing bracket; what was written is parsed.
WriteEnd ==
  /\ phase = "write"
  /\ member > Count
  /\ text' = text \o (IF object.trailing /\ Count > 0 THEN <<",">> ELSE <<>>) \o <<"]">>
  /\ member' = 1
  /\ index' = 0
  /\ pos' = Start(text')
  /\ phase' = "member"
  /\ UNCHANGED <<mapping, object, taken>>

-----------------------------------------------------------------------------
(* Parsing.                                                                *)

Fail ==
  /\ phase' = "failed"
  /\ UNCHANGED <<mapping, text, object, member, index, pos, taken>>

\* A class moves over the comma before a member, a tuple over the one behind it.
BeforeMember(i) == IF mapping.form = "class" THEN MoveNext(i) ELSE i

\* Mutant: a class moves over the comma behind a member, too.
BehindEither(i) == MoveNext(i)

BehindMember(i) == IF mapping.form = "tuple" THEN MoveNext(i) ELSE i

\* A member with the next index.
EnterPlain ==
  /\ phase = "member"
  /\ member <= Count
  /\ ~IsOrdered(member)
  /\ IF At(BeforeMember(pos)) = "end" THEN Fail
     ELSE /\ pos' = BeforeMember(pos)
          /\ index' = index + 1
          /\ phase' = "value"
          /\ UNCHANGED <<mapping, text, object, member, taken>>

\* A member with an index of its own: maybe_skip_members.
EnterOrdered ==
  /\ phase = "member"
  /\ member <= Count
  /\ IsOrdered(member)
  /\ IF index > mapping.members[member].at THEN Fail
     ELSE /\ pos' = BeforeMember(pos)
          /\ phase' = "skip"
          /\ UNCHANGED <<mapping, text, object, member, index, taken>>

\* Mutant: the last element before the member's is not skipped.
SkippingShort == index + 1 < mapping.members[member].at /\ At(pos) # "]"

Skipping == index < mapping.members[member].at /\ At(pos) # "]"

SkipElement ==
  /\ phase = "skip"
  /\ Skipping
  /\ LET next == MoveNext(SkipValue(pos))
     IN  IF SkipValue(pos) = 0 \/ At(next) = "end" THEN Fail
         ELSE /\ pos' = next
              /\ index' = index + 1
              /\ UNCHANGED <<mapping, text, object, member, taken, phase>>

EndSkip ==
  /\ phase = "skip"
  /\ ~Skipping
  /\ index' = index + 1
  /\ phase' = "value"
  /\ UNCHANGED <<mapping, text, object, member, pos, taken>>

\* The member is constructed from the text at i, or empty (0), the cursor is then
\* at next.
Construct(i, next) ==
  /\ taken' = Append(taken, i)
  /\ pos' = BehindMember(next)
  /\ member' = member + 1
  /\ phase' = "member"
  /\ UNCHANGED <<mapping, text, object, index>>

EndOfItem(i) == At(i) \in {",", "]", "end"}

ParseValue ==
  /\ phase = "value"
  /\ At(pos) = "v"
  /\ IF EndOfItem(pos + 1) THEN Construct(pos, pos + 1) ELSE Fail

ParseNull ==
  /\ phase = "value"
  /\ At(pos) = "null"
  /\ IF Nullable(member) /\ EndOfItem(pos + 1) THEN Construct(0, pos + 1) ELSE Fail

\* There is no element.
ConstructEmpty ==
  /\ phase = "value"
  /\ EndOfItem(pos)
  /\ IF Nullable(member) THEN Construct(0, pos) ELSE Fail

RejectArray ==
  /\ phase = "value"
  /\ At(pos) = "["
  /\ Fail

\* ordered_class_cleanup of a mapping that allows more elements than it maps.
SkipRest ==
  /\ phase = "member"
  /\ member > Count
  /\ ~mapping.exact
  /\ IF SkipArray(pos) = 0 THEN Fail
     ELSE /\ pos' = SkipArray(pos)
          /\ phase' = "done"
          /\ UNCHANGED <<mapping, text, object, member, index, taken>>

\* Mutant: the rest is not looked at.
CloseAnything ==
  /\ phase = "member"
  /\ member > Count
  /\ mapping.exact
  /\ pos' = pos + 1
  /\ phase' = "done"
  /\ UNCHANGED <<mapping, text, object, member, index, taken>>

\* ordered_class_cleanup of an exact mapping.
CloseExact ==
  /\ phase = "member"
  /\ member > Count
  /\ mapping.exact
  /\ IF At(pos) # "]" THEN Fail
     ELSE /\ pos' = pos + 1
          /\ phase' = "done"
          /\ UNCHANGED <<mapping, text, object, member, index, taken>>

Terminated == Finished /\ UNCHANGED vars

Next ==
  \/ WriteMember
  \/ WriteEnd
  \/ EnterPlain
  \/ EnterOrdered
  \/ SkipElement
  \/ EndSkip
  \/ ParseValue
  \/ ParseNull
  \/ ConstructEmpty
  \/ RejectArray
  \/ SkipRest
  \/ CloseExact
  \/ Terminated

Spec == Init /\ [][Next]_vars

-----------------------------------------------------------------------------
(* Properties.                                                             *)

TypeOK ==
  /\ mapping \in Mapping
  /\ text \in Seq(Token)
  /\ member \in 1 .. Count + 1
  /\ index \in Nat
  /\ pos \in 1 .. Len(text) + 1
  /\ taken \in Seq(0 .. Len(text))
  /\ phase \in Phases
  /\ phase \in {"skip", "value"} => member <= Count
  /\ phase # "write" => Len(taken) = member - 1

\* The index the mapping gives member m.
IndexOf(m) ==
  LET fixed == {k \in 1 .. m : IsOrdered(k)}
  IN  IF fixed = {} THEN m - 1
      ELSE LET k == CHOOSE k \in fixed : \A j \in fixed : j <= k
           IN  mapping.members[k].at + m - k

\* "All items must have an index greater than the previous."
Increasing == \A m \in 1 .. Count - 1 : IndexOf(m) < IndexOf(m + 1)

\* The token at i is no part of a nested array, except for its opening bracket.
Outermost(i) == Opened(1, i - 1) = Closed(1, i - 1)

\* The closing bracket; 0 if the text ends before it.
End == IF BehindArray(1) = 0 THEN 0 ELSE BehindArray(1) - 1

\* Where elements with index n begin: behind n commas of the array.
Elements(n) ==
  {i \in 1 .. (IF End = 0 THEN Len(text) ELSE End - 1) :
     /\ Outermost(i) /\ text[i] \in {"v", "null", "["}
     /\ Cardinality({k \in 1 .. i - 1 : text[k] = "," /\ Outermost(k)}) = n}

\* Every member parsed is built from the number at its index; it is empty only if
\* it is nullable and there is a null or nothing at its index.  Elements of any
\* kind are skipped in between, gaps may lie at the end of the array or behind it.
ArgumentsAtIndex ==
  /\ TypeOK
  /\ Increasing => \A m \in DOMAIN taken :
       IF taken[m] # 0
       THEN taken[m] \in Elements(IndexOf(m)) /\ text[taken[m]] = "v"
       ELSE Nullable(m) /\ \A i \in Elements(IndexOf(m)) : text[i] = "null"

\* The array has what the mapping wants, and no more if it is an exact one.
Suitable ==
  /\ \A m \in 1 .. Count :
       \/ \E i \in Elements(IndexOf(m)) : text[i] = "v"
       \/ Nullable(m) /\ \A i \in Elements(IndexOf(m)) : text[i] = "null"
  /\ mapping.exact =>
       \A i \in DOMAIN text :
         i < End => \E n \in 0 .. (IF Count = 0 THEN -1 ELSE IndexOf(Count)) :
                      Cardinality({k \in 1 .. i : text[k] = "," /\ Outermost(k)}) = n

\* An array is accepted if and only if it has what the mapping wants.
AcceptsSuitable ==
  Finished /\ object = NoObject /\ Increasing /\ End # 0 => (phase = "done" <=> Suitable)

\* A parse that returns has consumed its array up to and including its own closing
\* bracket and nothing behind it, whatever follows the last member: "Any subsequent
\* members are ignored."  A text that ends right behind the last member is accepted.
ConsumesOwnArray ==
  phase = "done" => pos = IF End = 0 THEN Len(text) + 1 ELSE End + 1

\* The arrays that are accepted are those that should be, and each as a whole.
AcceptsOwnArray == AcceptsSuitable /\ ConsumesOwnArray

\* An object that is written is parsed again with the same values.  The parser
\* takes no trailing comma in an exact mapping of a class.
RoundTrip ==
  Finished /\ object # NoObject
    /\ ~(object.trailing /\ mapping.exact /\ mapping.form = "class") =>
    /\ phase = "done"
    /\ \A m \in 1 .. Count : taken[m] = 0 <=> object.values[m] = "null"

-----------------------------------------------------------------------------
(* What the properties rely on; they say nothing of other texts and objects. *)

\* Commas and elements take turns, as in every minified array, whole or broken off.
Separated(t) ==
  \A i \in DOMAIN t :
    LET before == IF i = 1 THEN "[" ELSE t[i - 1]
    IN  /\ t[i] \in {"v", "null", "["} => before \in {"[", ","}
        /\ t[i] = "," => before \in {"v", "null", "]"}

NothingTrails(t) == \A i \in DOMAIN t \ {1} : t[i] = "]" => t[i - 1] # ","

\* A tuple, and a class without members, leave the cursor in front of the element
\* that follows, which is no array if elements are left over.
NoArrayBehind(g) ==
  (g.mapping.form = "tuple" \/ g.mapping.members = <<>>) /\ ~g.mapping.exact =>
    \A i \in DOMAIN g.text : g.text[i] # "["

\* Only the last member has elements before it that are no member's.
GapBeforeLast(ms) ==
  \A m \in DOMAIN ms :
    \/ ms[m].at \in {NoIndex, m - 1}
    \/ m = Len(ms) /\ ms[m].at >= m - 1

GivenSeparated     == \A g \in Given : Separated(g.text)
GivenArrays        == \A g \in Given : Separated(g.text) /\ NothingTrails(g.text) /\ NoArrayBehind(g)
WrittenWithoutGaps == \A w \in Written : GapBeforeLast(w.mapping.members)
=============================================================================
