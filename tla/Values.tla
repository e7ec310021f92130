-------------------------------- MODULE Values --------------------------------
(***************************************************************************)
(* Values that are written, parsed where they are, and parsed from what a  *)
(* skip has stored of them.                                                *)
(*                                                                         *)
(* A class whose members are in order parses each where it is, behind what *)
(* precedes it, with an end that it does not know. A member ahead of its   *)
(* turn is skipped; what the skip stores, the bounds of the value and some *)
(* notes about it, is parsed when the turn comes, by code of its own for   *)
(* every kind of value. Both have to give the value that has been written. *)
(***************************************************************************)
EXTENDS ValueParser

CONSTANT Samples       \* of [type, value, null, text, valid]: a value, or null, and its text if others have
                       \* written it; what is not valid is a text of no value of the type
ASSUME SamplesAssumption == \A x \in Samples : (x.null => x.type.nullable) /\ (x.text = <<>> => x.valid)

VARIABLES stage,       \* "begin", "text", "parsed", "skipped" or "done"
          sample,      \* the type and the value
          state,       \* the state in front of the value
          inPlace,     \* what has been parsed where it is
          stored,      \* what the skip has stored, and where it ended
          later        \* what has been parsed from what was stored
vars == <<stage, sample, state, inPlace, stored, later>>

Tails == {<<>>, <<Comma>>, <<Blank, Bracket>>}

(* Without checks and without a terminator a value at the end of the text  *)
(* is read beyond its end. Only texts that are valid go unchecked.         *)
Settings == {x \in [checked : BOOLEAN, zero : BOOLEAN, tail : Tails] : x.checked \/ x.zero \/ x.tail # <<>>}

Init ==
  /\ stage = "begin"
  /\ sample \in Samples
  /\ state = State(<<>>, FALSE, FALSE)
  /\ inPlace = Failed
  /\ stored = Stop(state)
  /\ later = Failed

Put(text) ==
  \E x \in Settings :
     /\ x.checked \/ sample.valid
     /\ state' = State(text \o x.tail, x.checked, x.zero)
     /\ stage' = "text"
     /\ UNCHANGED <<sample, inPlace, stored, later>>

Write ==
  /\ stage = "begin" /\ sample.text = <<>>
  /\ IF sample.null THEN Put(NullText)
     ELSE ~ Refused(sample.type, sample.value) /\ Put(Written(sample.type, sample.value))

Receive == stage = "begin" /\ sample.text # <<>> /\ Put(sample.text)

Refuse ==
  /\ stage = "begin" /\ sample.text = <<>> /\ ~ sample.null /\ Refused(sample.type, sample.value)
  /\ stage' = "done"
  /\ UNCHANGED <<sample, state, inPlace, stored, later>>

(* What is the text of no value at all is not skipped in this model.       *)
ParseInPlace ==
  /\ stage = "text"
  /\ inPlace' = parse_value(state, sample.type, FALSE)
  /\ stage' = IF sample.valid \/ sample.value # <<>> THEN "parsed" ELSE "done"
  /\ UNCHANGED <<sample, state, stored, later>>

Skip ==
  /\ stage = "parsed"
  /\ stored' = skip_value(state)
  /\ stage' = IF stored'.ok THEN "skipped" ELSE "done"
  /\ UNCHANGED <<sample, state, inPlace, later>>

ParseStored ==
  /\ stage = "skipped"
  /\ later' = parse_value(stored.state, sample.type, TRUE)
  /\ stage' = "done"
  /\ UNCHANGED <<sample, state, inPlace, stored>>

Ended == stage = "done" /\ UNCHANGED vars

Next == Write \/ Receive \/ Refuse \/ ParseInPlace \/ Skip \/ ParseStored \/ Ended
Spec == Init /\ [][Next]_vars

(***************************************************************************)
(* Properties                                                              *)
(***************************************************************************)
kind == sample.type.kind
IsWritten == sample.text = <<>>
WasParsed == stage \in {"parsed", "skipped", "done"} /\ state.text # <<>>

(* The state is of this kind, and what is behind a value is in the text.   *)
Positions == 0..(Len(state.text) + 2)
TypeOK ==
  /\ stage \in {"begin", "text", "parsed", "skipped", "done"}
  /\ state.text \in Seq(0..255) /\ state.first = 1
  /\ \A result \in {inPlace, later} :
       result.ok \in BOOLEAN /\ result.null \in BOOLEAN /\ result.value \in Seq(Int) /\ result.first \in Positions
  /\ stored.ok => {stored.first, stored.state.last, stored.state.dot, stored.state.exp} \subseteq Positions
  /\ stored.ok /\ stored.state.first # 0 =>
       stored.state.first <= stored.state.last /\ stored.state.last <= stored.first

(* How many digits a number has in front of its exponent, how many of them *)
(* are zeros at its beginning, and how many at least are significant and   *)
(* kept                                                                    *)
MantissaLength ==
  LET others == {p \in 1..(Len(state.text) + 1) : At(state, p) \in {LowerE, CapitalE, Comma, Blank, 0}}
  IN CHOOSE p \in others : \A q \in others : p <= q
MantissaDigits == {p \in 1..(MantissaLength - 1) : is_number(state.text[p])}
LeadingZeros == {p \in MantissaDigits : \A q \in MantissaDigits : q <= p => state.text[q] = Zero}
Kept == MaxExponent - 1 - Cardinality(LeadingZeros)
IsExact == Cardinality(MantissaDigits) <= (IF Unbounded(state) THEN Digits10 ELSE MaxExponent - 1)

(* Where nobody looks at the end of the digits, more of them than a word   *)
(* has overflow.                                                           *)
Fits == kind = "real" /\ Unbounded(state) => Cardinality(MantissaDigits \ LeadingZeros) <= Digits10

(* Reals that have the same first digits                                   *)
FirstDigits(v, k) ==
  LET n == Len(integer_to_string(v[2])) IN IF n >= k THEN v[2] \div 10 ^ (n - k) ELSE v[2] * 10 ^ (k - n)
Magnitude(v) == Len(integer_to_string(v[2])) + v[3]
Close(a, b) ==
  \/ a = b
  \/ Kept <= 0
  \/ a[2] > 0 /\ b[2] > 0 /\ a[1] = b[1] /\ Magnitude(a) = Magnitude(b) /\ FirstDigits(a, Kept) = FirstDigits(b, Kept)

(* Where the end of a text is the end of its range, a literal that may be  *)
(* quoted is not seen to end, nor is an unsigned one that is quoted.       *)
EndIsSeen ==
  \/ Last(state.text) \in {Comma, Bracket} \/ ~ state.checked
  \/ sample.type.literal = "Never"
  \/ sample.type.literal = "Always" /\ (kind # "unsigned" \/ state.zero)

(* What is read is the value.                                              *)
Same(v) == v = sample.value \/ (kind = "real" /\ ~ IsExact /\ v # <<>> /\ Close(v, sample.value))
IsRead(result) == result.ok /\ result.null = sample.null /\ (sample.null \/ Same(result.value))

(* The text of a real has no place for zeros at the beginning of a fraction*)
(* behind a whole part, and none for a sign in front of a power of ten;    *)
(* that of a point in time none for zeros at the beginning of a fraction.  *)
IsScientific(v) ==
  sample.type.format = "Scientific" \/ (sample.type.format = "Auto" /\ Magnitude(v) \notin -4..6)
HasPlace ==
  LET v == sample.value IN
  CASE sample.null -> TRUE
    [] kind = "real" /\ ~ sample.null /\ v[2] > 0 ->
         IF IsScientific(v) THEN v[1] = 1
         ELSE v[3] < 0 /\ Magnitude(v) > 0 => 10 * (v[2] % 10 ^ (- v[3])) >= 10 ^ (- v[3])
    [] kind = "date" /\ ~ sample.null -> v[3] = 0 \/ v[3] >= 10 ^ 8
    [] OTHER -> TRUE

(* An empty string of seven bits is not recognised where nothing is        *)
(* checked: its second quote is taken for its first.                       *)
IsRecognised == state.checked \/ kind # "string" \/ sample.type.high \/ sample.value # <<>>

(* A real that is written and read is the same (tests/src/                 *)
(* cookbook_numbers1_test.cpp:82: "Unexpected round trip error").          *)
RealsSurvive == WasParsed /\ IsWritten /\ kind = "real" => inPlace.value = sample.value

(* A value that to_json writes is the value that from_json reads, whatever *)
(* follows it and however the text ends: integers of every width at their  *)
(* ends, reals in each format, escaped strings and points in time          *)
(* (to_daw_json_string.h 476-1559 against daw_json_parse_value.h 69-554).  *)
WrittenIsRead ==
  WasParsed /\ IsWritten /\ HasPlace /\ Fits /\ IsRecognised /\ EndIsSeen => IsRead(inPlace)

(* The texts that others write of the same values, with exponents, leading *)
(* zeros, escapes of pairs, separators left out, are read as these values. *)
TextIsRead ==
  WasParsed /\ ~ IsWritten /\ sample.valid /\ Fits /\ IsRecognised /\ EndIsSeen => IsRead(inPlace)

(* Every text of a value, whoever has written it, is read as that value.   *)
ValueIsRead == WrittenIsRead /\ TextIsRead

(* What a skip stores is not enough for infinity, whose closing quote is   *)
(* behind the end, for a Boolean in a string that nobody checks, whose     *)
(* counter is that of the string, and, where nobody looks at the end of the*)
(* digits, for more of them than are kept.                                 *)
IsStorable ==
  CASE kind = "real" -> inPlace.value[2] # -1 /\ (Unbounded(state) => Cardinality(MantissaDigits) <= MaxExponent)
    [] kind = "bool" -> state.checked \/ front(state) # Quote
    [] OTHER -> TRUE

(* A member that a skip has passed, and that is parsed later from what the *)
(* skip stored, is the member that would have been parsed where it is      *)
(* (daw_json_skip.h 37-346 with the KnownBounds of each parse).            *)
StoredLikeInPlace ==
  stage = "done" /\ inPlace.ok /\ stored.ok /\ (inPlace.null \/ IsStorable) =>
    /\ later.ok
    /\ later.null = inPlace.null
    /\ later.value = inPlace.value \/ (kind = "real" /\ ~ IsExact /\ Close(later.value, inPlace.value))

(* Parsed or skipped, a value ends at the same place: what is behind it is *)
(* found by both. Unchecked, the parse of a null removes one byte more.    *)
BothEndAlike ==
  WasParsed /\ inPlace.ok /\ stored.ok /\ (inPlace.null => state.checked) =>
    trim_left([state EXCEPT !.first = inPlace.first]).first = trim_left([state EXCEPT !.first = stored.first]).first

(* It makes no difference to the parse whether a member was skipped first.*)
SkippedLikeParsed == StoredLikeInPlace /\ BothEndAlike

(* With CheckForNarrowing a number that does not fit into its type is an   *)
(* error, wherever it is parsed (daw_json_link_types_fwd.h:95: "Check if   *)
(* the value will fit in the result"), except for what is not seen:        *)
(*  - of a signed type only the bits of the unsigned one are compared, so  *)
(*    that 128 to 255 and -129 to -255 in 8 bits are read as other numbers;*)
(*  - a number that the word itself does not hold is compared when it has  *)
(*    overflowed. In place it has as many digits as the word may have; of  *)
(*    one that is stored they are not counted.                             *)
AbsValue == IF sample.value[1] < 0 THEN - sample.value[1] ELSE sample.value[1]
IsOfType ==
  LET bits == sample.type.bits
  IN sample.value[1] \in IF kind = "signed" THEN -2 ^ (bits - 1) .. 2 ^ (bits - 1) - 1 ELSE 0 .. 2 ^ bits - 1
OnlySignDoesNotFit == kind = "signed" /\ AbsValue < 2 ^ sample.type.bits
OverflowsUnseen(counted) == AbsValue >= Word /\ (counted => Len(integer_to_string(AbsValue)) <= Digits10 + 1)

RangeIsChecked ==
  stage = "done" /\ kind \in {"signed", "unsigned"} /\ sample.type.range /\ sample.value # <<>> =>
    /\ inPlace.ok => IsOfType \/ OnlySignDoesNotFit \/ OverflowsUnseen(TRUE)
    /\ later.ok   => IsOfType \/ OnlySignDoesNotFit \/ OverflowsUnseen(FALSE)

(* Texts that are no value and may be taken for one by a checked parse: a  *)
(* sign or a dot without digits behind it, and escapes that nobody checks, *)
(* of other letters, with characters that are no hexadecimal digits (they  *)
(* are looked at only where nothing else is: daw_json_parse_std_string.h   *)
(* 41), and of one half of a pair.                                         *)
EndsAt(p, bytes) == p = Len(sample.text) \/ sample.text[p + 1] \in bytes
LacksDigits ==
  \E p \in DOMAIN sample.text :
    \/ sample.text[p] = Minus /\ EndsAt(p, IF kind = "real" THEN {Dot, LowerE, CapitalE} ELSE {})
    \/ sample.text[p] = Dot /\ kind = "real" /\ EndsAt(p, {LowerE, CapitalE})
UnseenEscape ==
  LET escapes == {p \in 1..(Len(sample.text) - 2) : sample.text[p] = Backslash}
      units   == {p \in escapes : sample.text[p + 1] = LowerU /\ p + 6 <= Len(sample.text)}
      High(p) == p \in units /\ CodeUnit(state, p + 2) \in 55296..56319
      Low(p)  == p \in units /\ CodeUnit(state, p + 2) \in 56320..57343
  IN \/ \E p \in escapes : sample.text[p + 1] \notin {Quote, Backslash, 47, 98, 102, 110, 114, 116, LowerU} \cup 0..Blank
     \/ \E p \in units : \E q \in (p + 2)..(p + 5) : sample.text[q] \notin 48..57 \cup 65..70 \cup 97..102
     \/ \E p \in units : High(p) /\ p + 6 \in units /\ ~ Low(p + 6)
     \/ \E p \in units : Low(p) /\ ~ High(p - 6)
IsLetThrough ==
  CASE sample.value # <<>> -> TRUE    \* RangeIsChecked is about these numbers
    [] kind \in {"signed", "real"} /\ sample.value = <<>> -> LacksDigits
    [] kind = "string" /\ sample.value = <<>> -> UnseenEscape
    [] OTHER -> FALSE


===============================================================================
