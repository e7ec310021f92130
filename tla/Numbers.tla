------------------------------- MODULE Numbers -------------------------------
(***************************************************************************)
(* Numbers read from texts and written to texts.                           *)
(*                                                                         *)
(* Integers are accumulated in a word of WordBits bits (64 in the program),*)
(* which overflows, and digits are taken Block and twice as many at a time *)
(* (8 and 16). A real number is <<sign, digits, exponent>>: its digits as  *)
(* an integer without zeros at the end, times a power of ten. Of its digits*)
(* MaxExponent are kept, one less than a word has (18 of 19 for a double). *)
(* The multiplication by the power of ten, and its rounding, are exact.    *)
(***************************************************************************)
EXTENDS Bytes

CONSTANTS WordBits, Block
ASSUME WordAssumption == WordBits \in 4..17 /\ Block \in 1..2    \* 32 bits are enough for TLC

Word == 2 ^ WordBits
Digits10 == CHOOSE d \in 1..WordBits : 10 ^ d <= Word /\ Word < 10 ^ (d + 1)
MaxExponent == Digits10 - 1

(* The digits of [p, q) behind those of v                                  *)
Accumulate(s, p, q, v) ==
  FoldLeft(LAMBDA acc, b : (acc * 10 + parse_digit(b)) % Word, v, SubSeq(s.text, p, q - 1))

(***************************************************************************)
(* Unsigned integers                                                       *)
(***************************************************************************)
is_made_of_digits(s, p, count) == p + count <= s.last /\ \A q \in p..(p + count - 1) : is_number(At(s, q))
parse_digits(s, p, count) ==
  FoldLeft(LAMBDA acc, b : acc * 10 + (b % 16), 0, SubSeq(s.text, p, p + count - 1))

(* The value of so many double blocks, and of a single one behind them     *)
Blocks(s, pairs, single) ==
  LET add(acc, p, count) == (acc * 10 ^ count + parse_digits(s, p, count)) % Word
      behind == s.first + 2 * Block * pairs
      value == FoldLeft(LAMBDA acc, k : add(acc, s.first + 2 * Block * (k - 1), 2 * Block), 0, [k \in 1..pairs |-> k])
  IN IF single THEN [value |-> add(value, behind, Block), at |-> behind + Block]
     ELSE [value |-> value, at |-> behind]

(* Into a type of so many bits                                             *)
narrowPlain(result, bits, range, first) == Parsed(<<result % 2 ^ bits>>, first)    \* mutant: whatever the range
narrow(result, bits, range, first) ==
  IF range THEN Check(result < 2 ^ bits, Parsed(<<result>>, first)) ELSE Parsed(<<result % 2 ^ bits>>, first)

unsigned_parser_known(s, bits, range) ==
  LET pairs == (s.last - s.first) \div (2 * Block)
      blocks == Blocks(s, pairs, s.last - s.first - 2 * Block * pairs >= Block)
      first == IF s.zero THEN EndOfDigits(s, blocks.at, Len(s.text) + 1) ELSE s.last
  IN narrow(Accumulate(s, blocks.at, first, blocks.value), bits, range, first)

CountedNever(s) == Len(s.text) + 1    \* mutant: the digits of a number are not counted
Counted(s) == Digits10 + 1 + s.first
unsigned_parser_not_known(s, bits, range) ==
  LET made(k) == is_made_of_digits(s, s.first, 2 * Block * k)
      pairs == CHOOSE k \in 0..Len(s.text) : made(k) /\ ~ made(k + 1)
      blocks == Blocks(s, pairs, is_made_of_digits(s, s.first + 2 * Block * pairs, Block))
      first == EndOfDigits(s, blocks.at, IF s.zero THEN Len(s.text) + 1 ELSE s.last)
  IN Check((~ s.checked \/ has_more(s)) /\ (~ range \/ first <= Counted(s)),
           narrow(Accumulate(s, blocks.at, first, blocks.value), bits, range, first))

unsigned_parser(s, bits, range, known) ==
  IF known THEN unsigned_parser_known(s, bits, range) ELSE unsigned_parser_not_known(s, bits, range)

Wrap(v, bits) == ((v + 2 ^ (bits - 1)) % 2 ^ bits) - 2 ^ (bits - 1)
to_signed(u, sign, bits) ==
  IF bits = WordBits /\ u = 2 ^ (bits - 1) THEN - u ELSE Wrap(sign * Wrap(u, bits), bits)

(***************************************************************************)
(* Signs                                                                   *)
(***************************************************************************)
validate_unsigned_first(s) ==
  ~ s.checked \/ (is_number(front(s)) /\ (front(s) # Zero \/ s.last - s.first <= 1 \/ is_number(At(s, s.first + 1))))

(* The sign, or 0 for an error                                             *)
validate_signed_first(s) ==
  IF s.checked /\ ~ has_more(s) THEN 0
  ELSE CASE front(s) = Minus -> -1
         [] s.checked /\ front(s) = Zero /\ s.last - s.first > 1 /\ is_number(At(s, s.first + 1)) -> 0
         [] OTHER -> IF is_number(front(s)) THEN 1 ELSE 0
Unsigned(s, sign) == IF sign = -1 THEN remove_prefix(s, 1) ELSE s

(***************************************************************************)
(* Real numbers                                                            *)
(***************************************************************************)
Reduced(sign, digits, exponent) ==
  LET zeros == CHOOSE k \in 0..(Digits10 + 1) : digits % 10 ^ k = 0 /\ digits % 10 ^ (k + 1) # 0
  IN IF digits = 0 THEN <<sign, 0, 0>> ELSE <<sign, digits \div 10 ^ zeros, exponent + zeros>>
Clamp(v) == IF v < - (Word \div 2) THEN - (Word \div 2) ELSE IF v >= Word \div 2 THEN Word \div 2 - 1 ELSE v
Least(a, b) == IF a < b THEN a ELSE b

(* The exponent behind the e at h, and where it ends, or an error          *)
Exponent(s, h) ==
  LET signed == At(s, h + 1) \in {Plus, Minus}
      p == IF signed THEN h + 2 ELSE h + 1
      first == EndOfDigits(s, p, Bounded(s, s.last))
  IN Check(~ s.checked \/ (p < s.last /\ is_number(At(s, p))),
           Parsed(<<to_signed(Accumulate(s, p, first, 0), IF At(s, h + 1) = Minus THEN -1 ELSE 1, WordBits)>>, first))

(* The whole part, whose digits end at w, the fraction behind it and the   *)
(* exponent are found while they are read, and digits that are too many are*)
(* passed.                                                                 *)
WholePart(s, last, w) ==
  LET digits == Accumulate(s, s.first, w, 0)
      v == IF w >= last THEN EndOfDigits(s, w, Bounded(s, s.last)) ELSE w
  IN [digits |-> digits, passed |-> IF digits = 0 THEN 0 ELSE v - w, at |-> v]

FractionPart(s, whole, last, g) ==
  [digits |-> Accumulate(s, whole.at + 1, g, whole.digits),
   passed |-> whole.passed - (g - (whole.at + 1)),
   at |-> IF g < s.last /\ (whole.passed # 0 \/ g >= last) THEN EndOfDigits(s, g, Bounded(s, s.last)) ELSE g]

WithFraction(s, whole) ==
  LET f == whole.at + 1
      last == f + Least(s.last - f, MaxExponent - (f - s.first))
  IN IF ~ ((Unbounded(s) \/ whole.at < s.last) /\ At(s, whole.at) = Dot) THEN whole
     ELSE FractionPart(s, whole, last, IF whole.passed = 0 THEN EndOfDigits(s, f, Bounded(s, last)) ELSE f)

WithExponent(sign, mantissa, exponent) ==
  Check(exponent.ok,
        Parsed(Reduced(sign, mantissa.digits, Clamp(mantissa.passed + exponent.value[1])), exponent.first))
ExponentBehind(s, h) ==
  IF (~ s.checked \/ h < s.last) /\ At(s, h) \in {LowerE, CapitalE} THEN Exponent(s, h) ELSE Parsed(<<0>>, h)
MantissaAt(s, last) == WithFraction(s, WholePart(s, last, EndOfDigits(s, s.first, Bounded(s, last))))
RealOfParts(s, sign, mantissa) == WithExponent(sign, mantissa, ExponentBehind(s, mantissa.at))
RealBehind(s, sign) == RealOfParts(s, sign, MantissaAt(s, s.first + Least(s.last - s.first, MaxExponent)))
parse_real_unknown(s) ==
  LET sign == validate_signed_first(s) IN IF sign = 0 THEN Failed ELSE RealBehind(Unsigned(s, sign), sign)

(* The parts are where a skip has found them.                              *)
parse_real_known(s) ==
  LET sign == IF front(s) = Minus THEN -1 ELSE 1
      first == IF sign = -1 THEN s.first + 1 ELSE s.first
      fract_last == IF s.exp # 0 THEN s.exp ELSE s.last
      whole_last == IF s.dot # 0 THEN s.dot ELSE fract_last
      fract_first == s.dot + 1
      cut == whole_last - first > MaxExponent
      kept == IF cut \/ s.dot = 0 THEN 0
              ELSE Least(fract_last - fract_first, MaxExponent - (whole_last - first))
      until(p, last) == IF Unbounded(s) THEN EndOfDigits(s, p, Len(s.text) + 1) ELSE last
      whole == Accumulate(s, first, until(first, IF cut THEN first + MaxExponent ELSE whole_last), 0)
      digits == IF cut \/ s.dot = 0 THEN whole
                ELSE Accumulate(s, fract_first, until(fract_first, fract_first + kept), whole)
      exponent_p1 == IF cut THEN whole_last - first - MaxExponent ELSE - kept
      exponent_p2 == IF s.exp # 0 /\ s.exp + 1 < s.last THEN Exponent(s, s.exp).value[1] ELSE 0
  IN Check(~ s.checked \/ (has_more(s) /\ is_number_start(front(s))),
           Parsed(Reduced(sign, digits, exponent_p1 + exponent_p2), s.first))

parse_real(s, known) == IF known THEN parse_real_known(s) ELSE parse_real_unknown(s)

(***************************************************************************)
(* Writing                                                                 *)
(***************************************************************************)
digits100(n) == <<Zero + (n % 10), Zero + (n \div 10)>>
Pairs[v \in Nat] ==
  IF v >= 10 THEN digits100(v % 100) \o Pairs[v \div 100] ELSE IF v > 0 THEN <<Zero + v>> ELSE <<>>

(* Written backwards, two digits at a time, and turned round. Of a number  *)
(* below zero a digit is written before its sign is changed.               *)
integer_to_stringLate(v) ==    \* mutant: the digit written first is not taken from what is left
  IF v < 0 THEN <<Minus>> \o Reverse(<<Zero + ((- v) % 10)>> \o Pairs[- v])
  ELSE IF v = 0 THEN <<Zero>> ELSE Reverse(Pairs[v])
integer_to_string(v) ==
  IF v < 0 THEN <<Minus>> \o Reverse(<<Zero + ((- v) % 10)>> \o Pairs[(- v) \div 10])
  ELSE IF v = 0 THEN <<Zero>> ELSE Reverse(Pairs[v])

(* The digits of a real number in the form d.dddEe; the sign is not        *)
(* written.                                                                *)
Scientific(digits, exponent) ==
  LET text == integer_to_string(digits)
      fraction == IF Len(text) = 1 THEN <<>> ELSE <<Dot>> \o Tail(text)
  IN <<text[1]>> \o fraction \o <<CapitalE>> \o integer_to_string(exponent + Len(text) - 1)

to_chars(value, format) ==
  LET sign == IF value[1] = -1 THEN <<Minus>> ELSE <<>>
      digits == value[2]
      exponent == value[3]
      whole_dig == Len(integer_to_string(digits)) + exponent
      p1pow == 10 ^ (- exponent)
  IN CASE digits = 0 -> sign \o <<Zero>>
       [] digits # 0 /\ (format = "Scientific" \/ (format = "Auto" /\ whole_dig \notin -4..6)) ->
            Scientific(digits, exponent)
       [] OTHER ->
            sign \o
            (IF exponent >= 0 THEN integer_to_string(digits) \o [i \in 1..exponent |-> Zero]
             ELSE IF whole_dig < 0
                  THEN <<Zero, Dot>> \o [i \in 1..(- whole_dig) |-> Zero] \o integer_to_string(digits)
             ELSE integer_to_string(digits \div p1pow) \o <<Dot>> \o integer_to_string(digits % p1pow))
===============================================================================
