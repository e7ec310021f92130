----------------------------- MODULE ValueParser -----------------------------
(***************************************************************************)
(* The text of a value of each kind, what a skip of it stores, and the two *)
(* ways in which it is parsed: where it is, with an end that is not known, *)
(* and from the bounds that a skip has stored.                             *)
(*                                                                         *)
(* A type has a kind; the bits of an integer and whether its range is      *)
(* checked; how a literal is quoted; which of infinity and not a number are*)
(* allowed; the format of a real; whether bytes above 127 are; the unit of *)
(* points in time; and whether there may be a null instead.                *)
(***************************************************************************)
EXTENDS Dates, Strings

State(text, checked, zero) ==
  [text |-> text, first |-> 1, last |-> Len(text) + 1, dot |-> 0, exp |-> 0, counter |-> 0, checked |-> checked, zero |-> zero]

(***************************************************************************)
(* Writing                                                                 *)
(***************************************************************************)
Quoted(text) == <<Quote>> \o text \o <<Quote>>
Literal(type, text) == IF type.literal = "Always" THEN Quoted(text) ELSE text
Infinity == <<1, -1, 0>>
NaN == <<1, -2, 0>>
AllowsInf(type) == type.errors \in {"AllowInf", "AllowNanInf"} /\ type.literal # "Never"
AllowsNaN(type) == type.errors \in {"AllowNaN", "AllowNanInf"} /\ type.literal # "Never"

RealText(type, value) ==
  CASE value[2] = -2 -> Quoted(NaNText)
    [] value[2] = -1 -> Quoted((IF value[1] = -1 THEN <<Minus>> ELSE <<>>) \o InfText \o InityText)
    [] value[2] >= 0 -> Literal(type, to_chars(value, type.format))

(* The text of a value, and whether it is refused                          *)
Refused(type, value) ==
  \/ type.kind = "real" /\ value[2] = -2 /\ ~ AllowsNaN(type)
  \/ type.kind = "real" /\ value[2] = -1 /\ ~ AllowsInf(type)
  \/ type.kind = "raw" /\ ~ IsWritable(value, ~ type.high)
Written(type, value) ==
  CASE type.kind = "real" -> RealText(type, value)
    [] type.kind \in {"signed", "unsigned"} -> Literal(type, integer_to_string(value[1]))
    [] type.kind = "bool" -> Literal(type, IF value[1] = 1 THEN TrueText ELSE FalseText)
    [] type.kind = "string" -> Quoted(copy_escaped(value, ~ type.high))
    [] type.kind = "raw" -> Quoted(value)
    [] type.kind = "date" -> Quoted(DateText(value))

(***************************************************************************)
(* Skipping                                                                *)
(***************************************************************************)
Stop(s) == [ok |-> FALSE, state |-> s, first |-> 0]
Skipped(condition, s, first) == IF condition THEN [ok |-> TRUE, state |-> s, first |-> first] ELSE Stop(s)

(* The counter tells where the first escape is, or that there is none.     *)
skip_string(s) ==
  LET from[p \in 1..(Len(s.text) + 2)] ==
        IF p > Len(s.text) \/ At(s, p) = Quote THEN p ELSE from[IF At(s, p) = Backslash THEN p + 2 ELSE p + 1]
      end == from[s.first + 1]
      escapes == {p \in (s.first + 1)..(end - 1) : At(s, p) = Backslash}
      note == IF escapes = {} THEN -1 ELSE (CHOOSE p \in escapes : \A q \in escapes : p <= q) - (s.first + 1)
  IN Skipped(front(s) = Quote /\ At(s, end) = Quote,
             [s EXCEPT !.first = @ + 1, !.last = end, !.counter = note], end + 1)

(* What follows a literal is looked at behind the white space.             *)
EndsValue(s) == ~ s.checked \/ ~ has_more(s) \/ is_at_token_after_value(s)
skip_literal_of(s, word, value) ==
  LET rest == trim_left(remove_prefix(s, Len(word)))
  IN Skipped((Unbounded(s) \/ starts_with(s, word)) /\ EndsValue(rest),
             [s EXCEPT !.last = s.first + Len(word), !.counter = value], rest.first)
skip_null(s) ==
  LET next == remove_prefix(s, 4)
      rest == trim_left(next)
  IN Skipped((Unbounded(s) \/ starts_with(s, NullText)) /\ (~ s.checked \/ has_more(next)) /\ EndsValue(rest),
             [rest EXCEPT !.first = 0, !.last = 0], rest.first)

skip_numberNoFraction(s) ==    \* mutant: where the fraction begins is not stored
  LET first == EndOfDigits(s, IF front(s) = Minus THEN s.first + 1 ELSE s.first, Bounded(s, s.last))
      f == EndOfDigits(s, first + 1, Bounded(s, s.last))
      end == IF At(s, first) = Dot THEN f ELSE first
  IN Skipped(TRUE, [s EXCEPT !.last = end], end)
skip_number(s) ==
  LET digitsFrom(p) == IF p < s.last THEN EndOfDigits(s, p, Bounded(s, s.last)) ELSE p
      decimal == digitsFrom(IF front(s) = Minus THEN s.first + 1 ELSE s.first)
      has == (Unbounded(s) \/ decimal < s.last) /\ At(s, decimal) = Dot
      exp == IF has THEN digitsFrom(decimal + 1) ELSE decimal
      hasExp == At(s, exp) \in {LowerE, CapitalE}
      e == IF At(s, exp + 1) \in {Plus, Minus} THEN exp + 2 ELSE exp + 1
      end == IF hasExp THEN digitsFrom(e) ELSE exp
  IN Skipped(/\ front(s) = Zero /\ s.last - s.first > 1 => ~ is_number(At(s, s.first + 1))
             /\ Unbounded(s) \/ exp < s.last
             /\ s.checked /\ hasExp => e < s.last /\ is_number(At(s, e)),
             [s EXCEPT !.last = end, !.dot = IF has THEN decimal ELSE 0, !.exp = IF hasExp THEN exp ELSE 0], end)

skip_value(s) ==
  IF s.checked /\ ~ has_more(s) THEN Stop(s)
  ELSE CASE front(s) = Quote -> skip_string([s EXCEPT !.counter = 0])
         [] front(s) = TrueText[1] -> skip_literal_of(s, TrueText, 1)
         [] front(s) = FalseText[1] -> skip_literal_of(s, FalseText, 0)
         [] front(s) = NullText[1] -> skip_null(s)
         [] OTHER -> IF is_number_start(front(s)) THEN skip_number(s) ELSE Stop(s)

(***************************************************************************)
(* Parsing                                                                 *)
(***************************************************************************)
(* The state behind a quote of a literal in a string, and whether there is *)
(* one where there must be                                                 *)
NeedsQuote(s, type) == type.literal = "Always" /\ s.checked /\ ~ (has_more(s) /\ front(s) = Quote)
LacksQuote(s, type) == NeedsQuote(s, type) \/ (type.literal = "Maybe" /\ s.checked /\ ~ has_more(s))
skip_quote(s, type) ==
  IF type.literal = "Always" \/ (type.literal = "Maybe" /\ front(s) = Quote) THEN remove_prefix(s, 1) ELSE s

(* A value that has been parsed in place has the quote, if there is one,   *)
(* and the end of an item behind it. Integers and Booleans trim.           *)
ClosedAtQuote(s, type, result, trims) == result    \* mutant: the quote behind a literal is left
Closed(s, type, result, trims) ==
  LET t == [s EXCEPT !.first = result.first]
      u == skip_quote(t, type)
      v == IF trims THEN trim_left(u) ELSE u
  IN Check(/\ result.ok
           /\ ~ LacksQuote(t, type)
           /\ ~ s.checked \/ ~ has_more(v) \/ at_end_of_item(front(v)),
           [result EXCEPT !.first = v.first])
Opened(s, type, known) == IF known THEN s ELSE skip_quote(s, type)
OpensBadly(s, type, known) ==
  ~ known /\ (LacksQuote(s, type) \/ (s.checked /\ ~ s.zero /\ ~ has_more(skip_quote(s, type))))

(* Infinity and not a number, which are in strings                         *)
AtInf(s) == s.last - s.first >= 4 /\ starts_with(s, InfText)
parse_inf(s, sign, known) ==
  LET t == remove_prefix(s, 3)
      long == t.last - t.first >= 6 /\ starts_with(t, InityText \o <<Quote>>)
      u == IF front(t) = Quote THEN remove_prefix(t, 1) ELSE remove_prefix(t, 6)
  IN Check(/\ front(t) = Quote \/ long
           /\ ~ s.checked \/ empty(u) \/ (~ known /\ at_end_of_item(front(u))),
           Parsed(<<sign, -1, 0>>, u.first))
parse_nan(s, known) ==
  LET quotes == {p \in s.first..(Len(s.text) + 1) : At(s, p) = Quote \/ (s.checked /\ p >= s.last)}
      u == [s EXCEPT !.first = 1 + CHOOSE p \in quotes : \A q \in quotes : p <= q]
  IN Check(~ s.checked \/ empty(u) \/ (~ known /\ at_end_of_item(front(u))), Parsed(NaN, u.first))

CloseReal(s, type, number, known) ==
  LET behind == [s EXCEPT !.first = number.first]
  IN CASE ~ known -> Closed(s, type, number, FALSE)
       [] known /\ type.literal = "Never" -> number
       [] known /\ type.literal # "Never" -> Check(~ s.checked \/ empty(behind) \/ at_end_of_item(front(behind)), number)
RealOrName(s, type, sign, known) ==
  CASE AllowsInf(type) /\ AtInf(Unsigned(s, sign)) -> parse_inf(Unsigned(s, sign), sign, known)
    [] AllowsNaN(type) /\ starts_with(s, NaNText) -> parse_nan(s, known)
    [] OTHER -> IF s.checked /\ ~ (has_more(s) /\ is_number_start(front(s))) THEN Failed
                ELSE CloseReal(s, type, parse_real(s, known /\ type.literal = "Never"), known)
RealOpened(s, type, known) == RealOrName(s, type, IF front(s) = Minus THEN -1 ELSE 1, known)
parse_value_real(s, type, known) ==
  IF OpensBadly(s, type, known) THEN Failed ELSE RealOpened(Opened(s, type, known), type, known)

SignedOf(number, sign, bits) ==
  IF number.ok THEN [number EXCEPT !.value = <<to_signed(@[1], sign, bits)>>] ELSE Failed
SignedOpened(s, type, sign, known) ==
  LET signed == SignedOf(unsigned_parser(Unsigned(s, sign), type.bits, type.range, known), sign, type.bits)
  IN CASE sign = 0 \/ (known /\ s.checked /\ ~ is_number_start(front(s))) -> Failed
       [] OTHER -> IF known THEN signed ELSE Closed(s, type, signed, TRUE)
parse_value_signed(s, type, known) ==
  LET opened == Opened(s, type, known)
  IN IF OpensBadly(s, type, known) THEN Failed ELSE SignedOpened(opened, type, validate_signed_first(opened), known)

UnsignedClosed(s, type, closed) ==
  Check(closed.ok /\ (type.literal = "Never" \/ Unbounded(s) \/ closed.first < s.last), closed)
UnsignedOf(s, type, number, known) ==
  IF known THEN Check(validate_unsigned_first(s), number)
  ELSE Check(~ s.checked \/ is_number(front(s)), UnsignedClosed(s, type, Closed(s, type, number, FALSE)))
UnsignedOpened(s, type, known) ==
  UnsignedOf(s, type, unsigned_parser(s, type.bits, type.range, known), known)
parse_value_unsigned(s, type, known) ==
  IF OpensBadly(s, type, known) THEN Failed ELSE UnsignedOpened(Opened(s, type, known), type, known)

(* Of a Boolean that has been skipped, unchecked, only the counter is used.*)
parse_value_bool(s0, type, known) ==
  LET s == Opened(s0, type, known)
      is == IF s.checked THEN starts_with(s, TrueText) ELSE front(s) = TrueText[1]
      word == IF is THEN TrueText ELSE FalseText
      value(b) == <<IF b THEN 1 ELSE 0>>
  IN CASE known /\ ~ s.checked -> Parsed(value(s.counter # 0), s.first)
       [] known /\ s.checked -> Check(front(s) \in {TrueText[1], FalseText[1]}, Parsed(value(front(s) = TrueText[1]), s.first))
       [] ~ known -> IF LacksQuote(s0, type) \/ (s.checked /\ ~ starts_with(s, word)) THEN Failed
                     ELSE Closed(s, type, Parsed(value(is), s.first + Len(word)), TRUE)

parse_value_string_raw(str, first) == Parsed(SubSeq(str.text, str.first, str.last - 1), first)
parse_value_date(str, type, first) ==
  [parse_iso8601_timestamp(SubSeq(str.text, str.first, str.last - 1), type.unit) EXCEPT !.first = first]

(* Kinds that are written as strings                                       *)
parse_value_text(s, type, known) ==
  LET skip == IF known THEN Skipped(TRUE, s, s.first) ELSE skip_string(s)
      str == skip.state
  IN IF ~ skip.ok \/ (empty(s) /\ s.checked /\ type.kind = "date") THEN Failed
     ELSE CASE type.kind = "string" -> Decoded(str, type.high, skip.first)
            [] type.kind = "raw" -> parse_value_string_raw(str, skip.first)
            [] type.kind = "date" -> parse_value_date(str, type, skip.first)

parse_value_of(s, type, known) ==
  CASE type.kind = "real" -> parse_value_real(s, type, known)
    [] type.kind = "signed" -> parse_value_signed(s, type, known)
    [] type.kind = "unsigned" -> parse_value_unsigned(s, type, known)
    [] type.kind = "bool" -> parse_value_bool(s, type, known)
    [] type.kind \in {"string", "raw", "date"} -> parse_value_text(s, type, known)

(* Unchecked, one character more is removed behind a null.                 *)
parse_value_null(s) ==
  LET next == remove_prefix(s, 4)
  IN CASE ~ has_more(s) \/ is_at_token_after_value(s) -> Null(s.first)
       [] OTHER -> IF s.checked
                   THEN Check(~ has_more(next) \/ at_end_of_item(front(next)), Null(trim_left(next).first))
                   ELSE Null(trim_left(next).first + 1)
IsNull(s, known) ==
  IF known THEN s.first = 0
  ELSE \/ ~ has_more(s) \/ is_at_token_after_value(s)
       \/ IF s.checked THEN starts_with(s, NullText) ELSE front(s) = NullText[1]
parse_value(s, type, known) ==
  IF type.nullable /\ IsNull(s, known) THEN IF known THEN Null(0) ELSE parse_value_null(s)
  ELSE parse_value_of(s, type, known)
===============================================================================
