---------------------------- MODULE ClassMembers ----------------------------
(***************************************************************************)
(* How a C++ class is constructed from the members of a JSON object        *)
(* (daw_json_parse_class.h, daw_json_location_info.h).                     *)
(*                                                                         *)
(* The constructor arguments are parsed one after the other.  To find the  *)
(* next argument the parser walks the members of the document; a member    *)
(* that belongs to a later argument has its location stored and is parsed  *)
(* from there when its turn comes; a member nobody asked for is skipped.   *)
(* After the last argument the rest of the object is skipped or, for an    *)
(* exact mapping, must be empty.                                           *)
(*                                                                         *)
(* Text is abstracted to cells: one cell per member (its name and whether  *)
(* its value is the literal null) and one cell for each closing brace.     *)
(* The object lies inside another one, so the cells are                    *)
(*   inner members, "}" of this object, outer members, "}" of the outer.   *)
(* The cursor is the index of the cell it is in front of; the comma before *)
(* a member and white space belong to the member's cell.                   *)
(***************************************************************************)
EXTENDS Integers, Sequences

CONSTANTS
  MemberCount,        \* the number of mapped members, sizeof...(JsonMembers)
  NameCount,          \* the names 1..NameCount occur; n <= MemberCount is the
                      \* name of the n-th mapped member, the others are unmapped
  Hash,               \* name_hash of every name
  ForceFullNameCheck, \* the parser option of that name
  Documents,          \* the inner member sequences considered, those of checked
                      \* (FALSE) and those of unchecked parses (TRUE)
  Enclosing,          \* the outer member sequences considered
  Mappings            \* the mappings considered: [nullable, exact]

Members == 1 .. MemberCount
Names   == 1 .. NameCount
Cell    == [name : Names, null : BOOLEAN]
Mapping == [nullable : SUBSET Members, exact : BOOLEAN]

ASSUME ConstantsAssumption ==
  /\ MemberCount \in Nat
  /\ NameCount \in Nat
  /\ MemberCount <= NameCount
  /\ Hash \in [Names -> Nat]
  /\ ForceFullNameCheck \in BOOLEAN
  /\ Documents \in [BOOLEAN -> SUBSET Seq(Cell)]
  /\ Enclosing \subseteq Seq(Cell)
  /\ Mappings \subseteq Mapping

VARIABLES
  unchecked,\* CheckedParseMode::no (without a comment policy)
  inner,    \* the members of the object being parsed
  outer,    \* the members that follow it in the enclosing object
  mapping,  \* is_json_nullable of each member, all_json_members_must_exist
  member,   \* the constructor argument being parsed; MemberCount + 1: cleanup
  pos,      \* parse_state.first, as a cell index
  loc,      \* locations[m].first; 0 is the null pointer, "missing"
  taken,    \* the cell argument m was parsed from; 0: constructed empty
  phase,    \* where control is
  reason    \* ErrorReason of the exception, "none" before it

document == <<unchecked, inner, outer, mapping>>
vars     == <<unchecked, inner, outer, mapping, member, pos, loc, taken, phase, reason>>

Phases == {"member", "find", "done", "failed", "astray"}
Reasons == {"none", "MissingMember", "UnknownMember", "NumberOutOfRange",
            "InvalidValue"}

-----------------------------------------------------------------------------
(* The cells.                                                              *)

End   == Len(inner) + 1               \* the closing brace of this object
Total == End + Len(outer) + 1         \* the closing brace of the outer one

IsMember(i) == i \in 1 .. Len(inner) \/ i \in End + 1 .. Total - 1
IsBrace(i)  == i \in {End, Total}
CellAt(i)   == IF i < End THEN inner[i] ELSE outer[i - End]

\* The first member at or after cell i: where a search for '"' stops.
NextQuote(i) ==
  IF \E j \in i .. Total : IsMember(j)
  THEN CHOOSE j \in i .. Total : IsMember(j) /\ \A k \in i .. j - 1 : ~IsMember(k)
  ELSE Total + 1

\* Mutant: the brace the cursor is already in front of is not counted.
BraceBehind(i) == IF i < End THEN End ELSE Total

\* The closing brace skip_class finds when called between members at cell i.
ClosingBrace(i) == IF i <= End THEN End ELSE Total

-----------------------------------------------------------------------------
(* Names are looked up by their hash.  The strings are compared too when   *)
(* the option asks for it or two mapped names have the same hash.          *)

\* Mutant: names with equal hashes are not noticed.
HashOnly == ForceFullNameCheck

FullNameMatch ==
  \/ ForceFullNameCheck
  \/ \E m, n \in Members : m # n /\ Hash[m] = Hash[n]

\* locations_info_t::find_name: the first mapped member from "from" on that
\* answers to the name; MemberCount + 1 stands for MemberCount, not found.
FindName(from, name) ==
  LET hits == {n \in from .. MemberCount :
                 Hash[n] = Hash[name] /\ (FullNameMatch => n = name)}
  IN  IF hits = {} THEN MemberCount + 1
      ELSE CHOOSE n \in hits : \A k \in hits : n <= k

-----------------------------------------------------------------------------
Init ==
  /\ unchecked \in BOOLEAN
  /\ inner \in Documents[unchecked]
  /\ outer \in Enclosing
  /\ mapping \in Mappings
  /\ member = 1
  /\ pos = 1
  /\ loc = [m \in Members |-> 0]
  /\ taken = [m \in Members |-> 0]
  /\ phase = "member"
  /\ reason = "none"

Fail(r) ==
  /\ phase' = "failed"
  /\ reason' = r
  /\ UNCHANGED <<document, member, pos, loc, taken>>

\* Control continues at p with the cursor at cell i.  Behind the last cell the
\* cursor has left the buffer: nothing is known about the rest of the parse.
GoTo(i, p) ==
  /\ pos' = i
  /\ phase' = IF i <= Total THEN p ELSE "astray"

\* The argument's value is at cell i, or absent (0); the next argument is up
\* with the cursor at cell next.
Construct(i, next) ==
  /\ taken' = [taken EXCEPT ![member] = i]
  /\ member' = member + 1
  /\ GoTo(next, "member")

Nullable(m) == m \in mapping.nullable

\* Mutant: one argument too many is parsed.
EnterOneTooMany ==
  /\ phase = "member"
  /\ phase' = "find"
  /\ UNCHANGED <<document, member, pos, loc, taken, reason>>

\* Mutant: a required member counts as missing at the brace even if it is stored.
EnterIgnoringStored ==
  /\ phase = "member"
  /\ member <= MemberCount
  /\ IF ~unchecked /\ ~Nullable(member) /\ IsBrace(pos)
     THEN Fail("MissingMember")
     ELSE /\ phase' = "find"
          /\ UNCHANGED <<document, member, pos, loc, taken, reason>>

\* parse_class_member up to the call of find_class_member, and the check with
\* which that begins.
EnterMember ==
  /\ phase = "member"
  /\ member <= MemberCount
  /\ IF ~unchecked /\ ~Nullable(member) /\ loc[member] = 0 /\ IsBrace(pos)
     THEN Fail("MissingMember")
     ELSE /\ phase' = "find"
          /\ UNCHANGED <<document, member, pos, loc, taken, reason>>

\* The loop of find_class_member is about to look at the member at the cursor.
Searching ==
  /\ phase = "find"
  /\ loc[member] = 0
  /\ IsMember(pos)

Hit == FindName(member, CellAt(pos).name)

\* A member that is not mapped, or whose argument has been parsed already.
SkipUnknownMember ==
  /\ Searching
  /\ Hit > MemberCount
  /\ ~mapping.exact
  /\ GoTo(pos + 1, "find")
  /\ UNCHANGED <<document, member, loc, taken, reason>>

\* Mutant: any member but the one wanted is taken for unknown.
RejectOutOfOrder ==
  /\ Searching
  /\ Hit # member
  /\ mapping.exact
  /\ Fail(IF unchecked THEN "NumberOutOfRange" ELSE "UnknownMember")

\* Unchecked, the lookup's assertion is compiled out and the subscript of
\* locations throws.
RejectUnknownMember ==
  /\ Searching
  /\ Hit > MemberCount
  /\ mapping.exact
  /\ Fail(IF unchecked THEN "NumberOutOfRange" ELSE "UnknownMember")

\* Mutant: the next quote is searched for behind a value parsed in place, too.
QuoteAfterValue(i) == NextQuote(i + 1)

\* The value parser of a nullable member takes a null.  Unchecked, it steps
\* over the character after the null too, whichever it is.
AfterValue(i) ==
  IF unchecked /\ CellAt(i).null /\ IsBrace(i + 1) THEN i + 2 ELSE i + 1

\* The member wanted is at the cursor: parse it where it is.
ParseInPlace ==
  /\ Searching
  /\ Hit = member
  /\ ~CellAt(pos).null \/ Nullable(member)
  /\ loc' = [loc EXCEPT ![member] = pos]
  /\ Construct(pos, AfterValue(pos))
  /\ UNCHANGED <<document, reason>>

\* A value parser that takes no null meets one.
RejectNull ==
  /\ Searching
  /\ Hit = member
  /\ CellAt(pos).null
  /\ ~Nullable(member)
  /\ Fail("InvalidValue")

\* Mutant: the range of a skipped null is stored as that of a value.
RangeOfAny(i) == i

\* skip_value returns the range of the value; that of a null has no start.
RangeOf(i) == IF CellAt(i).null THEN 0 ELSE i

\* Mutant: a member is only stored for the argument that is parsed next.
StoreIfNext ==
  /\ Searching
  /\ Hit \in member + 1 .. MemberCount
  /\ loc' = IF Hit = member + 1 THEN [loc EXCEPT ![Hit] = RangeOf(pos)] ELSE loc
  /\ GoTo(pos + 1, "find")
  /\ UNCHANGED <<document, member, taken, reason>>

\* Mutant: the location is stored for the next argument, not for the one found.
StoreForNext ==
  /\ Searching
  /\ Hit \in member + 1 .. MemberCount
  /\ loc' = [loc EXCEPT ![member + 1] = RangeOf(pos)]
  /\ GoTo(pos + 1, "find")
  /\ UNCHANGED <<document, member, taken, reason>>

\* A member of a later argument: store where it is, over what has been stored of
\* an earlier one of that name, and move on.  Unchecked,
\* and unless it is the last mapped member, the next member is found by
\* searching for the quote its name starts with.
StoreForLater ==
  /\ Searching
  /\ Hit \in member + 1 .. MemberCount
  /\ loc' = [loc EXCEPT ![Hit] = RangeOf(pos)]
  /\ GoTo(IF unchecked /\ Hit < MemberCount THEN NextQuote(pos + 1) ELSE pos + 1,
          "find")
  /\ UNCHANGED <<document, member, taken, reason>>

\* The member was passed before: parse it from its stored location.
ParseStored ==
  /\ phase = "find"
  /\ loc[member] # 0
  /\ Construct(loc[member], pos)
  /\ UNCHANGED <<document, loc, reason>>

\* The object ends and the member was not seen, or seen as a null.
ConstructEmpty ==
  /\ phase = "find"
  /\ loc[member] = 0
  /\ IsBrace(pos)
  /\ Nullable(member)
  /\ Construct(0, pos)
  /\ UNCHANGED <<document, loc, reason>>

RejectMissing ==
  /\ phase = "find"
  /\ loc[member] = 0
  /\ IsBrace(pos)
  /\ ~Nullable(member)
  /\ Fail("MissingMember")

\* class_cleanup_now of a mapping that allows more members than it maps.
SkipRest ==
  /\ phase = "member"
  /\ member = MemberCount + 1
  /\ ~mapping.exact
  /\ pos' = ClosingBrace(pos) + 1
  /\ phase' = "done"
  /\ UNCHANGED <<document, member, loc, taken, reason>>

\* Mutant: an exact mapping skips the rest of the object like any other.
CloseExactBySkipping ==
  /\ phase = "member"
  /\ member = MemberCount + 1
  /\ mapping.exact
  /\ pos' = ClosingBrace(pos) + 1
  /\ phase' = "done"
  /\ UNCHANGED <<document, member, loc, taken, reason>>

\* class_cleanup_now of an exact mapping.  Unchecked, a cursor that is not in
\* front of a brace is moved by one character nevertheless.
CloseExact ==
  /\ phase = "member"
  /\ member = MemberCount + 1
  /\ mapping.exact
  /\ \/ /\ IsBrace(pos)
        /\ pos' = pos + 1
        /\ phase' = "done"
        /\ UNCHANGED <<document, member, loc, taken, reason>>
     \/ /\ ~IsBrace(pos) /\ ~unchecked
        /\ Fail("UnknownMember")
     \/ /\ ~IsBrace(pos) /\ unchecked
        /\ phase' = "astray"
        /\ UNCHANGED <<document, member, pos, loc, taken, reason>>

Finished == phase \in {"done", "failed", "astray"}

Terminated == Finished /\ UNCHANGED vars

FindStep ==
  \/ SkipUnknownMember
  \/ RejectUnknownMember
  \/ ParseInPlace
  \/ RejectNull
  \/ StoreForLater
  \/ ParseStored
  \/ ConstructEmpty
  \/ RejectMissing

Next ==
  \/ EnterMember
  \/ FindStep
  \/ SkipRest
  \/ CloseExact
  \/ Terminated

\* The parse is one sequential call: it takes its steps until it returns.
Spec == Init /\ [][Next]_vars /\ WF_vars(Next)
-----------------------------------------------------------------------------
(* Properties.                                                             *)

TypeOK ==
  /\ unchecked \in BOOLEAN
  /\ inner \in Documents[unchecked]
  /\ outer \in Enclosing
  /\ mapping \in Mappings
  /\ member \in 1 .. MemberCount + 1
  /\ phase = "find" => member \in Members
  /\ pos \in 1 .. Total + 1
  /\ loc \in [Members -> 0 .. Total]
  /\ taken \in [Members -> 0 .. Total]
  /\ phase \in Phases
  /\ reason \in Reasons

\* The cells named m before cell i.
Passed(m, i) == {j \in 1 .. i - 1 : IsMember(j) /\ CellAt(j).name = m}

\* Before cell i there is no m, or one that is a null.
NoValue(m, i) == Passed(m, i) = {} \/ \E j \in Passed(m, i) : CellAt(j).null

\* The stored location of an argument that is still to be parsed is that of a
\* value of its name that the cursor passed, and there is one if there was any but
\* nulls: no member is overlooked or attributed to another argument, and no null is
\* taken for a value.  The locations are stored by the searches for other arguments.
\* Which member of a repeated name it is, is not said here.
CacheIsOwn ==
  phase \in {"member", "find"} =>
    \A m \in Members : m >= member =>
      IF loc[m] = 0 THEN NoValue(m, pos)
      ELSE loc[m] \in Passed(m, pos) /\ ~CellAt(loc[m]).null

\* "When mapped to a C++ class, it will parse the first "firstName" it finds,
\* skipping the rest." (docs/cookbook/key_values.md:99): no argument is built from
\* a member that repeats the name of an earlier one.  The locations that searches
\* for other arguments store are overwritten by later members, so that it does not
\* hold.
FirstIsParsed ==
  \A m \in Members : taken[m] # 0 => \A j \in Passed(m, End) : taken[m] <= j

\* A parse that returns has consumed its object up to and including its own
\* closing brace, and nothing of the object around it, whichever members were
\* found, skipped, absent or left over (class_cleanup_now).
ConsumesOwnClass == phase = "done" => pos = End + 1

\* An object an exact mapping does not map is no input for an unchecked parse.
AcceptedByMapping ==
  mapping.exact => \A i \in 1 .. Len(inner) : inner[i].name \in Members

\* Until it returns the parse never passes its own closing brace: looking for a
\* member stops at the end of the class (find_class_member).  When it returns it
\* has passed that brace and nothing else.
StaysInsideClass ==
  /\ AcceptedByMapping /\ phase # "done" => phase # "astray" /\ pos <= End
  /\ ConsumesOwnClass

\* An argument is built from a member of its name of this very object, wherever
\* it was found: in place, or at the location stored during another search.
ArgumentsAreOwnMembers ==
  \A m \in Members : taken[m] # 0 =>
    taken[m] <= Len(inner) /\ inner[taken[m]].name = m

\* "Missing" is reported of a required member only, not before the object's end,
\* and when there is no member of that name, or one that is a null; a null is rejected
\* only where a required member has it.
MissingIsMissing ==
  /\ reason \in {"MissingMember", "InvalidValue"} =>
       member \in Members /\ ~Nullable(member)
  /\ reason = "MissingMember" => IsBrace(pos) /\ NoValue(member, pos)
  /\ reason = "InvalidValue"  =>
       IsMember(pos) /\ CellAt(pos).name = member /\ CellAt(pos).null

\* "Unknown member" is reported only under an exact mapping and of a member that
\* is not mapped or repeats an earlier one.
UnknownIsUnknown ==
  reason \in {"UnknownMember", "NumberOutOfRange"} =>
    /\ mapping.exact
    /\ IsMember(pos)
    /\ \/ CellAt(pos).name \notin Members
       \/ Passed(CellAt(pos).name, pos) # {}

\* An exception names a reason that is there.
FailuresHaveReasons == MissingIsMissing /\ UnknownIsUnknown

\* A parse that returns under an exact mapping saw mapped members only.
ExactIsExact == phase = "done" => AcceptedByMapping

-----------------------------------------------------------------------------
(* The parser implements the lookup of ClassLookup.                        *)

Outcome == CASE phase = "done" -> "done" [] phase = "failed" -> "failed" [] OTHER -> "parsing"

Value ==
  [m \in Members |-> IF phase = "done" /\ taken[m] # 0 THEN RangeOf(taken[m]) ELSE 0]

Lookup == INSTANCE ClassLookup WITH outcome <- Outcome, value <- Value

\* A parse ends with the arguments ClassLookup allows or with a failure it allows,
\* in whatever order the document has its members.
LookupSafety == Lookup!Safety

\* ... and every parse ends; an unchecked one may be astray then, of which
\* StaysInsideClass says when.
LookupSpec == LookupSafety /\ <>Finished
=============================================================================
