---------------------------- MODULE StringSearch ----------------------------
(***************************************************************************)
(* The searches for the quote that ends a string.                          *)
(*                                                                         *)
(* All start behind the opening quote and return where they stopped and    *)
(* the note they leave about escapes, which is negative where there are    *)
(* none to decode. With instructions on blocks of characters the text is   *)
(* taken Block characters at a time. What is known of the characters of a  *)
(* block is a number in the program, here the set of the bits that are set.*)
(* In the program a block has 16 characters, and the words of the search   *)
(* that can be evaluated at compile time have 8 and 4.                     *)
(***************************************************************************)
EXTENDS Integers, Sequences, FiniteSetsExt, JsonText

CONSTANTS Block, BigWord, SmallWord
ASSUME BlockAssumption == Block \in {2, 4, 8, 16} /\ BigWord \in Nat \ {0} /\ SmallWord \in Nat \ {0}

(* Whether a search stops at p without a quote: at the end of the range, at*)
(* the terminator, or, unchecked, not before it has left the text.         *)
Exhausted(text, last, bound, p) ==
  \/ bound = "range" /\ p >= last
  \/ bound = "zero" /\ At(text, p) = NUL
  \/ p > Len(text) + 1

Stops(text, last, bound, p) == Exhausted(text, last, bound, p) \/ At(text, p) = "\""

(* Where a search ends that has come to p: an escaped character is passed  *)
(* with its backslash.                                                     *)
EndEach(text, last, bound) ==    \* mutant: escaped quotes end the search
  LET from[p \in 1..(Len(text) + 3)] == IF Stops(text, last, bound, p) THEN p ELSE from[p + 1]
  IN from
End(text, last, bound) ==
  LET from[p \in 1..(Len(text) + 3)] ==
        IF Stops(text, last, bound, p) THEN p ELSE from[p + (IF At(text, p) = "\\" THEN 2 ELSE 1)]
  IN from

(* The first escape it finds, or 0.                                        *)
FirstEscape(text, last, bound) ==
  LET from[p \in 1..(Len(text) + 3)] ==
        IF Stops(text, last, bound, p) THEN 0 ELSE IF At(text, p) = "\\" THEN p ELSE from[p + 1]
  IN from
Note(escape, distance) == IF escape = 0 THEN -1 ELSE distance

(* Whole words without quotes and backslashes are passed.                  *)
SkipWords(text, last, size) ==
  LET first[p \in 1..(Len(text) + 1)] ==
        IF last - p >= 2 * size /\ \A i \in 0..(size - 1) : text[p + i] \notin {"\"", "\\"}
        THEN first[p + size] ELSE p
  IN first

WordStart(text, first, last) ==
  IF last - first >= BigWord THEN SkipWords(text, last, BigWord)[first]
  ELSE IF last - first >= SmallWord THEN SkipWords(text, last, SmallWord)[first] ELSE first

(* The search that can be evaluated at compile time notes how far behind   *)
(* the beginning the first escape is.                                      *)
ConstantSearchOfRest(text, first, last, bound) ==    \* mutant: counted from where the words ended
  LET from == WordStart(text, first, last)
      escape == FirstEscape(text, last, bound)[from]
  IN [end |-> End(text, last, bound)[from], escape |-> Note(escape, escape - from)]
ConstantSearch(text, first, last, bound) ==
  LET from == WordStart(text, first, last)
      escape == FirstEscape(text, last, bound)[from]
  IN [end |-> End(text, last, bound)[from], escape |-> Note(escape, escape - first)]

(* The same where only the escapes of JSON are accepted; an end of 0 stands*)
(* for the exception.                                                      *)
Escapable == {"\"", "\\", "/", "b", "f", "n", "r", "t", "u"}
StrictEnd(text, last, bound) ==
  LET from[p \in 1..(Len(text) + 3)] ==
        IF Stops(text, last, bound, p) THEN p
        ELSE IF At(text, p) = "\n" \/ (At(text, p) = "\\" /\ At(text, p + 1) \notin Escapable) THEN 0
        ELSE from[p + (IF At(text, p) = "\\" THEN 2 ELSE 1)]
  IN from
StrictSearch(text, first, last, bound) ==
  LET escape == FirstEscape(text, last, bound)[first]
  IN [end |-> StrictEnd(text, last, bound)[first], escape |-> Note(escape, escape - first)]

(* The search with memchr notes the distance from the escape back to the   *)
(* beginning.                                                              *)
InRange(bound) == IF bound = "none" THEN "none" ELSE "range"
RuntimeSearch(text, first, last, bound) ==
  LET escape == FirstEscape(text, last, InRange(bound))[first]
  IN [end |-> End(text, last, InRange(bound))[first], escape |-> Note(escape, first - escape)]

(* Of the characters of the block at p, those that are c.                  *)
Bits(text, p, c) == {i \in 0..(Block - 1) : At(text, p + i) = c}
Shifted(bits) == {i + 1 : i \in bits}

(* The sum of two words, place by place: what is carried into each place,  *)
(* and out of the last one, and which bits are set.                        *)
Bit(bits, i) == IF i \in bits THEN 1 ELSE 0
Carries(a, b) ==
  LET into[i \in 0..Block] == IF i = 0 THEN 0 ELSE (Bit(a, i - 1) + Bit(b, i - 1) + into[i - 1]) \div 2
  IN into
SumBits(a, b) == {i \in 0..(Block - 1) : (Bit(a, i) + Bit(b, i) + Carries(a, b)[i]) % 2 = 1}

(* The characters of a block that are escaped, and whether the first of the*)
(* next block is. A run of backslashes that begins at an odd place carries *)
(* into the place behind it when its beginning is added.                   *)
FindEscapedHere(prevEscaped, allBackslashes) ==    \* mutant: a block does not know of the one before
  LET backslashes == allBackslashes
      followEscape == Shifted(backslashes)
      oddStarts == {i \in backslashes : i % 2 = 1} \ followEscape
      startsOnEven == SumBits(oddStarts, backslashes)
  IN [escaped |-> {i \in followEscape : i % 2 = 0 <=> i \notin Shifted(startsOnEven)}, carry |-> {}]
FindEscaped(prevEscaped, allBackslashes) ==
  LET backslashes == allBackslashes \ prevEscaped
      followEscape == Shifted(backslashes) \cup prevEscaped
      oddStarts == {i \in backslashes : i % 2 = 1} \ followEscape
      startsOnEven == SumBits(oddStarts, backslashes)
  IN [escaped |-> {i \in followEscape : i % 2 = 0 <=> i \notin Shifted(startsOnEven)},
      carry |-> IF Carries(oddStarts, backslashes)[Block] = 0 THEN {} ELSE {0}]

(* Block by block up to the quote, knowing of the next character, at, if   *)
(* it is escaped and what has been noted: of an escape in a block, its     *)
(* place in the block. The last characters, no whole block, are searched   *)
(* one by one, as if the first of them were not escaped.                   *)
LastSearch(text, first, last, bound, at, note) ==
  LET found == End(text, last, InRange(bound))[at]
      escape == FirstEscape(text, last, InRange(bound))[at]
  IN [end |-> IF bound # "none" /\ found > last THEN last ELSE found,
      escape |-> IF note < 0 THEN Note(escape, first - escape) ELSE note]

States(text) == [at : 1..(Len(text) + 3), carry : SUBSET {0}, note : -1..(Block - 1)]
Escaping(text, s) == FindEscaped(s.carry, Bits(text, s.at, "\\"))
Quotes(text, s) == Bits(text, s.at, "\"") \ Escaping(text, s).escaped
Noted(text, s) ==
  LET slashes == Bits(text, s.at, "\\") IN IF slashes # {} /\ s.note < 0 THEN Min(slashes) ELSE s.note

ByBlocks(text, first, last, bound) ==
  LET from[s \in States(text)] ==
        IF last - s.at < Block THEN LastSearch(text, first, last, bound, s.at, s.note)
        ELSE IF Quotes(text, s) # {} THEN [end |-> s.at + Min(Quotes(text, s)), escape |-> Noted(text, s)]
        ELSE from[[at |-> s.at + Block, carry |-> Escaping(text, s).carry, note |-> Noted(text, s)]]
  IN from
BlockSearch(text, first, last, bound) ==
  ByBlocks(text, first, last, bound)[[at |-> first, carry |-> {}, note |-> -1]]

Search(exec, text, first, last, bound) ==
  CASE exec = "constant" -> ConstantSearch(text, first, last, bound)
    [] exec = "strict" -> StrictSearch(text, first, last, bound)
    [] exec = "runtime" -> RuntimeSearch(text, first, last, bound)
    [] exec = "block" -> BlockSearch(text, first, last, bound)
=============================================================================
