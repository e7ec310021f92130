------------------------------- MODULE Strings -------------------------------
(***************************************************************************)
(* Strings read from texts and written to texts.                           *)
(*                                                                         *)
(* A program has a string as bytes in UTF-8. Written, its code points are  *)
(* taken one by one and escaped where JSON or the restriction to seven bits*)
(* asks for it; read, the escapes are replaced by bytes again.             *)
(***************************************************************************)
EXTENDS Bytes
LOCAL INSTANCE Bitwise

(***************************************************************************)
(* UTF-8                                                                   *)
(***************************************************************************)
Continues(cp, shift) == 128 + ((cp \div 2 ^ shift) % 64)
utf32_to_utf8(cp) ==
  CASE cp <= 127 -> <<cp>>
    [] cp \in 128..2047 -> <<192 + (cp \div 64), Continues(cp, 0)>>
    [] cp \in 2048..65535 -> <<224 + (cp \div 4096), Continues(cp, 6), Continues(cp, 0)>>
    [] cp > 65535 -> <<240 + (cp \div 2 ^ 18), Continues(cp, 12), Continues(cp, 6), Continues(cp, 0)>>

(* The code point of the character at p, and where the next one is         *)
Leading(b) == CASE b < 128 -> 1 [] b \in 128..223 -> 2 [] b \in 224..239 -> 3 [] b >= 240 -> 4
CodePoint(bytes, p) ==
  LET count == Leading(bytes[p])
      lead == IF count = 1 THEN bytes[p] ELSE bytes[p] % 2 ^ (7 - count)
  IN FoldLeft(LAMBDA cp, b : cp * 64 + (b % 64), lead, SubSeq(bytes, p + 1, p + count - 1))

(***************************************************************************)
(* Writing                                                                 *)
(***************************************************************************)
to_nibble_char(n) == IF n < 10 THEN Zero + n ELSE 65 + (n - 10)
output_hex(c) ==
  <<Backslash, LowerU>> \o [i \in 1..4 |-> to_nibble_char((c \div 16 ^ (4 - i)) % 16)]

Letters == [b \in {8, 12, 10, 13, 9} |-> CASE b = 8 -> 98 [] b = 12 -> 102 [] b = 10 -> 110 [] b = 13 -> 114 [] b = 9 -> 116]
SurrogatesSwapped(cp) == output_hex(56320 + (cp % 1024)) \o output_hex(55232 + (cp \div 1024))  \* mutant
Surrogates(cp) == output_hex(55232 + (cp \div 1024)) \o output_hex(56320 + (cp % 1024))

Escaped(cp, restrict_high) ==
  CASE cp \in {Quote, Backslash} -> <<Backslash, cp>>
    [] cp \in DOMAIN Letters -> <<Backslash, Letters[cp]>>
    [] cp < 32 /\ cp \notin DOMAIN Letters -> output_hex(cp)
    [] restrict_high /\ cp \in 127..65535 -> output_hex(cp)
    [] restrict_high /\ cp > 65535 -> Surrogates(cp)
    [] OTHER -> utf32_to_utf8(cp)

(* The text of a string, and of one that is written as it is, which may be *)
(* refused.                                                                *)
copy_escaped(bytes, restrict_high) ==
  LET from[p \in 1..(Len(bytes) + 1)] ==
        IF p > Len(bytes) THEN <<>>
        ELSE Escaped(CodePoint(bytes, p), restrict_high) \o from[p + Leading(bytes[p])]
  IN from[1]
IsWritable(bytes, restrict_high) == ~ restrict_high \/ \A i \in DOMAIN bytes : bytes[i] \in 32..127

(***************************************************************************)
(* Reading                                                                 *)
(***************************************************************************)
to_nibble(b) == (b - (IF b > 90 THEN 87 ELSE IF b > 57 THEN 55 ELSE 48)) % 256
IsHex(s, p) == \A i \in 0..3 : to_nibble(At(s, p + i)) < 16
CodeUnit(s, p) ==
  LET byte(q) == (16 * to_nibble(At(s, q))) | to_nibble(At(s, q + 1))
  IN (256 * byte(p)) | byte(p + 2)

(* The bytes that an escape with the u at p stands for, and where it ends. *)
(* Digits are looked at only where nothing else is checked. Of a pair, the *)
(* backslash of the second is passed without a look.                       *)
decode_utf16Single(s, p) ==    \* mutant: the second of a pair is left for later
  [ok |-> TRUE, bytes |-> utf32_to_utf8(CodeUnit(s, p + 1)), next |-> p + 5]
decode_utf16(s, p) ==
  LET cp == CodeUnit(s, p + 1)
      pair == cp \in 55296..56319
      full == (cp - 55296) * 1024 + CodeUnit(s, p + 7) - 56320 + 65536
      valid == /\ ~ s.checked => IsHex(s, p + 1) /\ (pair => IsHex(s, p + 7))
               /\ s.checked => s.last - p >= 5 /\ (pair => s.last - p >= 11 /\ At(s, p + 6) = LowerU)
  IN [ok |-> valid, bytes |-> utf32_to_utf8(IF pair THEN full ELSE cp), next |-> IF pair THEN p + 11 ELSE p + 5]

Meaning(b) == CASE b = 98 -> 8 [] b = 102 -> 12 [] b = 110 -> 10 [] b = 114 -> 13 [] b = 116 -> 9 [] OTHER -> b

(* The escape with the character behind its backslash at p                 *)
Escape(s, p, high) ==
  IF At(s, p) = LowerU THEN decode_utf16(s, p)
  ELSE [ok |-> ~ s.checked \/ (~ is_space(At(s, p)) /\ (high \/ At(s, p) < 128)), bytes |-> <<Meaning(At(s, p))>>, next |-> p + 1]

(* The string between quotes. Up to the first escape, as the skip of the   *)
(* string has counted, it is copied.                                       *)
PrefixCounted(s) == IF s.counter > 1 THEN s.counter + 1 ELSE 0    \* mutant: the backslash is copied too
Prefix(s) == IF s.counter - 1 > 1 THEN s.counter - 1 ELSE 0
parse_string_known_stdstring(s, high) ==
  LET first == IF front(s) = Quote THEN s.first + 1 ELSE s.first
      from[p \in 1..(Len(s.text) + 12)] ==
        IF (s.checked /\ p >= s.last) \/ At(s, p) = Quote \/ p > Len(s.text) THEN [ok |-> TRUE, bytes |-> <<>>]
        ELSE IF At(s, p) = Backslash
        THEN LET e == Escape(s, p + 1, high)
             IN IF e.ok THEN [from[e.next] EXCEPT !.bytes = e.bytes \o @] ELSE [ok |-> FALSE, bytes |-> <<>>]
        ELSE LET rest == from[p + 1] IN [rest EXCEPT !.bytes = <<At(s, p)>> \o @]
      read == from[first + Prefix(s)]
  IN [read EXCEPT !.bytes = SubSeq(s.text, first, first + Prefix(s) - 1) \o @]

needs_slow_path(s) == s.counter >= 0
StringOf(read, first) == Check(read.ok, Parsed(read.bytes, first))
Decoded(s, high, first) ==
  IF ~ high \/ needs_slow_path(s) THEN StringOf(parse_string_known_stdstring(s, high), first)
  ELSE Parsed(SubSeq(s.text, s.first, s.last - 1), first)
===============================================================================
