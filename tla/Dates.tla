-------------------------------- MODULE Dates --------------------------------
(***************************************************************************)
(* Points in time read from ISO 8601 time stamps and written as such.      *)
(*                                                                         *)
(* A point in time is <<days since 1970, second of the day, nanosecond>>.  *)
(* Hours and minutes are unsigned words of UnsignedBits bits (32 in the    *)
(* program); an offset is subtracted from them.                            *)
(***************************************************************************)
EXTENDS Numbers

CONSTANT UnsignedBits
ASSUME UnsignedAssumption == UnsignedBits \in 6..16
UnsignedWord == 2 ^ UnsignedBits

TruncatedQuotient(a, b) == IF a >= 0 THEN a \div b ELSE - ((- a) \div b)

(***************************************************************************)
(* Days                                                                    *)
(***************************************************************************)
(* The year begins with March, so that the leap day is the last; eras of   *)
(* 400 years have the same length.                                         *)
DaysOfCivilJanuary(year, month, day) ==    \* mutant: the year begins with January
  LET era == TruncatedQuotient(IF year >= 0 THEN year ELSE year - 399, 400)
      yoe == year - era * 400
      doy == ((153 * (month + (IF month > 2 THEN -3 ELSE 9)) + 2) \div 5) + day - 1
  IN era * 146097 + yoe * 365 + (yoe \div 4) - (yoe \div 100) + doy - 719468
DaysOfCivil(year, month, day) ==
  LET y == IF month <= 2 THEN year - 1 ELSE year
      era == TruncatedQuotient(IF y >= 0 THEN y ELSE y - 399, 400)
      yoe == y - era * 400
      doy == ((153 * (month + (IF month > 2 THEN -3 ELSE 9)) + 2) \div 5) + day - 1
  IN era * 146097 + yoe * 365 + (yoe \div 4) - (yoe \div 100) + doy - 719468

civil_to_time_point(ymd, hms, unit) ==
  LET seconds == hms.hour * 3600 + hms.minute * 60 + hms.second
  IN <<DaysOfCivil(ymd.year, ymd.month, ymd.day) + (seconds \div 86400), seconds % 86400,
       (hms.nanosecond \div unit) * unit>>

(* Of times before 1970, only those at midnight: the parts of the others   *)
(* are below zero and are written as large numbers.                        *)
time_point_to_civil(tp) ==
  LET z == tp[1] + 719468
      era == TruncatedQuotient(IF z >= 0 THEN z ELSE z - 146096, 146097)
      doe == z - era * 146097
      yoe == (doe - (doe \div 1460) + (doe \div 36524) - (doe \div 146096)) \div 365
      doy == doe - (365 * yoe + (yoe \div 4) - (yoe \div 100))
      mp == (5 * doy + 2) \div 153
      m == mp + (IF mp < 10 THEN 3 ELSE -9)
  IN [year |-> yoe + era * 400 + (IF m <= 2 THEN 1 ELSE 0), month |-> m,
      day |-> doy - ((153 * mp + 2) \div 5) + 1,
      hour |-> tp[2] \div 3600, minute |-> (tp[2] \div 60) % 60, second |-> tp[2] % 60, nanosecond |-> tp[3]]

(***************************************************************************)
(* Reading                                                                 *)
(***************************************************************************)
NumberOf(digits) == FoldLeft(LAMBDA acc, b : acc * 10 + parse_digit(b), 0, digits)
Two(text, p) == NumberOf(SubSeq(text, p, p + 1))
Signless(text) == IF text # <<>> /\ text[1] \in {Minus, Plus} THEN Tail(text) ELSE text
IsNumber(text) == text # <<>> /\ \A i \in DOMAIN Signless(text) : is_number(Signless(text)[i])
parse_number(text) == IF text[1] = Minus THEN - NumberOf(Signless(text)) ELSE NumberOf(Signless(text))

(* The part of a text in front of what is at p, and the separator that is  *)
(* passed if it is one                                                     *)
WithoutSeparator(text, n) == IF is_number(text[n]) THEN n ELSE n - 1
Behind(text, p) == IF p <= Len(text) /\ ~ is_number(text[p]) THEN p + 1 ELSE p

(* From the end: two digits, two digits, and the year is the rest          *)
parse_iso_8601_date(text) ==
  LET n == WithoutSeparator(text, Len(text) - 2)
      year == SubSeq(text, 1, WithoutSeparator(text, n - 2))
  IN [ok |-> IsNumber(year), year |-> IF IsNumber(year) THEN parse_number(year) ELSE 0,
      month |-> Two(text, n - 1), day |-> Two(text, Len(text) - 1)]

Fraction(digits) == NumberOf(digits) * 10 ^ (9 - Len(digits))
parse_iso_8601_time(text) ==
  LET m == Behind(text, 3)
      s == Behind(text, m + 2)
      f == Behind(text, s + 2)
  IN [hour |-> Two(text, 1), minute |-> Two(text, m), second |-> IF s <= Len(text) THEN Two(text, s) ELSE 0,
      nanosecond |-> IF f <= Len(text) THEN Fraction(SubSeq(text, f, Len(text))) ELSE 0]

(* Hours and minutes of an offset are both read from behind its sign.      *)
Shifted(hms, offset) ==
  LET part == Two(offset, 2)
      move(v) == (IF offset[1] = Plus THEN v - part ELSE v + part) % UnsignedWord
  IN [hms EXCEPT !.hour = move(@), !.minute = move(@)]

parse_iso8601_timestamp(text, unit) ==
  LET ts == {i \in DOMAIN text : text[i] = CapitalT}
      t == CHOOSE i \in ts : \A j \in ts : i <= j
      rest == SubSeq(text, t + 1, Len(text))
      others == {i \in DOMAIN rest : ~ (is_number(rest[i]) \/ rest[i] \in {Colon, Dot})}
      n == IF others = {} THEN Len(rest) ELSE (CHOOSE i \in others : \A j \in others : i <= j) - 1
      ymd == parse_iso_8601_date(SubSeq(text, 1, t - 1))
      hms == parse_iso_8601_time(SubSeq(rest, 1, n))
      offset == SubSeq(rest, n + 1, Len(rest))
      hasOffset == offset # <<>> /\ offset[1] # CapitalZ
  IN Check(/\ ts # {} /\ t < Len(text) /\ ymd.ok
           /\ hasOffset => Len(offset) \in {5, 6},
           Parsed(civil_to_time_point(ymd, IF hasOffset THEN Shifted(hms, offset) ELSE hms, unit), 0))

(***************************************************************************)
(* Writing                                                                 *)
(***************************************************************************)
TwoDigits(v) == (IF v < 10 THEN <<Zero>> ELSE <<>>) \o integer_to_string(v)
Trimmed[v \in Nat] == IF v # 0 /\ v % 10 = 0 THEN Trimmed[v \div 10] ELSE v

CivilText(civil) ==
  integer_to_string(civil.year) \o <<Minus>> \o TwoDigits(civil.month) \o <<Minus>> \o TwoDigits(civil.day)
  \o <<CapitalT>> \o TwoDigits(civil.hour) \o <<Colon>> \o TwoDigits(civil.minute) \o <<Colon>> \o TwoDigits(civil.second)
  \o (IF civil.nanosecond > 0 THEN <<Dot>> \o integer_to_string(Trimmed[civil.nanosecond]) ELSE <<>>)
  \o <<CapitalZ>>
DateText(tp) == CivilText(time_point_to_civil(tp))
===============================================================================
