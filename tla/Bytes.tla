-------------------------------- MODULE Bytes --------------------------------
(***************************************************************************)
(* Texts as sequences of bytes, and the state of a parse of one value.     *)
(*                                                                         *)
(* A state has the text, the position it is at and the end of its range,   *)
(* the positions a skip has left in it (0 for none), the number a skip has *)
(* left in its counter, and whether it is checked and whether a terminator *)
(* ends the text. At reads that terminator behind the end.                 *)
(***************************************************************************)
EXTENDS Integers, SequencesExt

Blank == 32
Quote == 34
Plus == 43
Comma == 44
Minus == 45
Dot == 46
Zero == 48
Colon == 58
CapitalE == 69
CapitalT == 84
CapitalZ == 90
Bracket == 93
Backslash == 92
LowerE == 101
LowerU == 117
Brace == 125
TrueText == <<116, 114, 117, 101>>
FalseText == <<102, 97, 108, 115, 101>>
NullText == <<110, 117, 108, 108>>
NaNText == <<78, 97, 78>>
InfText == <<73, 110, 102>>
InityText == <<105, 110, 105, 116, 121>>

At(s, p) == IF p \in 1..Len(s.text) THEN s.text[p] ELSE 0
front(s) == At(s, s.first)
has_more(s) == s.first < s.last
empty(s) == s.first = 0 \/ s.first >= s.last \/ (s.zero /\ front(s) = 0)
starts_with(s, word) ==
  s.last - s.first >= Len(word) /\ \A i \in 1..Len(word) : At(s, s.first + i - 1) = word[i]
remove_prefix(s, count) == [s EXCEPT !.first = @ + count]
is_at_token_after_value(s) == front(s) \in {Comma, Brace, Bracket}
at_end_of_item(b) == b \in {Comma, Brace, Bracket, Colon} \cup 0..Blank
is_space(b) == b \in 1..Blank

trim_left(s) ==
  LET tokens == {p \in s.first..(Len(s.text) + 1) : ~ is_space(At(s, p)) \/ (s.checked /\ p >= s.last)}
  IN IF s.first > Len(s.text) THEN s ELSE [s EXCEPT !.first = CHOOSE p \in tokens : \A q \in tokens : p <= q]

(* The digit a byte is; 10 or more of one that is none.                    *)
parse_digit(b) == (b - Zero) % 256
is_number(b) == parse_digit(b) < 10
is_number_start(b) == is_number(b) \/ b = Minus

(* Behind the digits from p on, no further than last. Nobody looks at last *)
(* where the text has a terminator or is not checked.                      *)
EndOfDigits(s, p, last) ==
  LET ends == {q \in p..(Len(s.text) + 1) : ~ is_number(At(s, q)) \/ q >= last}
  IN IF p > Len(s.text) THEN p ELSE CHOOSE q \in ends : \A r \in ends : q <= r
Unbounded(s) == s.zero \/ ~ s.checked
Bounded(s, last) == IF Unbounded(s) THEN Len(s.text) + 1 ELSE last

(* What a parse returns: a value as a sequence of numbers, or an error, and*)
(* where the state is then.                                                *)
Parsed(value, first) == [ok |-> TRUE, null |-> FALSE, value |-> value, first |-> first]
Null(first) == [ok |-> TRUE, null |-> TRUE, value |-> <<>>, first |-> first]
Failed == [ok |-> FALSE, null |-> FALSE, value |-> <<>>, first |-> 0]
Check(condition, result) == IF condition THEN result ELSE Failed
===============================================================================
