------------------------------- MODULE MCValues -------------------------------
(* Instances of Values: each kind of value at its limits, in each way it   *)
(* may be written, and the texts that others write.                        *)
EXTENDS Values

Digits == "+,-./0123456789:"
Capitals == "ABCDEFGHIJKLMNOPQRSTUVWXYZ[\\]"
Letters1 == "abcdefghijklmnopqrstuvwxyz"
Text(string) ==
  LET at(row, first, c) == {first + i : i \in {k \in 0..(Len(row) - 1) : SubSeq(row, k + 1, k + 1) = c}}
      byte(c) == at(Digits, 43, c) \cup at(Capitals, 65, c) \cup at(Letters1, 97, c) \cup at(" ", 32, c) \cup at("\"", 34, c)
  IN [i \in 1..Len(string) |-> CHOOSE b \in byte(SubSeq(string, i, i)) : TRUE]

Literals == {"Never", "Maybe", "Always"}
Type(k) == [kind |-> k, bits |-> WordBits, range |-> FALSE, literal |-> "Never", errors |-> "None",
            format |-> "Auto", high |-> TRUE, unit |-> 1, nullable |-> FALSE]
Value(type, value) == [type |-> type, value |-> value, null |-> FALSE, text |-> <<>>, valid |-> TRUE]
Foreign(type, string, value) == [Value(type, value) EXCEPT !.text = Text(string)]
Wrong(type, string) == [Foreign(type, string, <<>>) EXCEPT !.valid = FALSE]
Nulls(types) == {[Value([type EXCEPT !.nullable = TRUE], <<>>) EXCEPT !.null = TRUE] : type \in types}

(* Integers                                                                *)
Integers1(k, bits, range, literals) ==
  {[Type(k) EXCEPT !.bits = b, !.range = r, !.literal = l] : b \in bits, r \in range, l \in literals}
Ends(k, bits) ==
  IF k = "signed" THEN {-2 ^ (bits - 1), 1 - 2 ^ (bits - 1), 2 ^ (bits - 1) - 1} ELSE {2 ^ bits - 1, 2 ^ bits - 2}
Between(k) == {0, 1, 7, 9, 10, 99, 100, 105, 127} \cup (IF k = "signed" THEN {-1, -9, -10, -99, -100, -101} ELSE {})
IntegerValues ==
  UNION {{Value(type, <<v>>) : v \in Ends(type.kind, type.bits) \cup Between(type.kind)} :
         type \in UNION {Integers1(k, {8, WordBits}, BOOLEAN, Literals) : k \in {"signed", "unsigned"}}}
Plain(k) == Integers1(k, {8}, {TRUE}, {"Never"})
IntegerTexts ==
  UNION {{Foreign(type, "-0", <<0>>), Foreign(type, "0", <<0>>)} : type \in Plain("signed")}
    \cup {Foreign(type, "007", <<7>>) : type \in Plain("unsigned")}
    \cup UNION {{Foreign(type, "\"12\"", <<12>>), Foreign(type, "12", <<12>>)} :
                type \in UNION {Integers1(k, {8}, {TRUE}, {"Maybe"}) : k \in {"signed", "unsigned"}}}
TooLarge(k) ==
  UNION {{[Wrong(type, x[1]) EXCEPT !.value = <<x[2]>>] :
          x \in {<<"256", 256>>, <<"300", 300>>, <<"1000", 1000>>, <<"99999", 99999>>, <<"131071", 131071>>,
                 <<"131072", 131072>>, <<"999999", 999999>>, <<"1048576", 1048576>>, <<"1310720", 1310720>>}
                  \cup (IF k = "signed" THEN {<<"128", 128>>, <<"200", 200>>, <<"255", 255>>, <<"-129", -129>>, <<"-255", -255>>,
                                              <<"-256", -256>>, <<"-257", -257>>, <<"-1000", -1000>>} ELSE {})} : type \in Plain(k)}
WrongIntegers ==
  TooLarge("signed") \cup TooLarge("unsigned")
    \cup {Wrong(type, string) : type \in Plain("signed"), string \in {"a", "-a", "-", "1.", "1.5", "1e2", "01", "\"1\"", "null"}}
    \cup {Wrong(type, string) : type \in Plain("unsigned"), string \in {"-1", "-", "a", "1.", "1.5", "1e2", "true"}}
    \cup {Wrong(type, string) : type \in Integers1("signed", {8}, {TRUE}, {"Always"}), string \in {"1", "\"1", "1\""}}

(* Real numbers                                                            *)
Reals(formats, literals, errors) ==
  {[Type("real") EXCEPT !.format = f, !.literal = l, !.errors = e] : f \in formats, l \in literals, e \in errors}
RealValues ==
  {Value(type, <<sign, digits, exponent>>) :
   type \in Reals({"Auto", "Scientific", "Decimal"}, Literals, {"None"}),
   sign \in {1, -1}, digits \in {1, 5, 12, 105, 999}, exponent \in -6..6}
    \cup {Value(type, <<sign, 0, 0>>) : type \in Reals({"Auto", "Decimal"}, Literals, {"None"}), sign \in {1, -1}}
NoNumbers ==
  {Value(type, value) :
   type \in Reals({"Auto"}, Literals, {"None", "AllowInf", "AllowNaN", "AllowNanInf"}), value \in {Infinity, NaN, <<-1, -1, 0>>}}
RealTexts ==
  {Foreign(type, x[1], x[2]) :
   type \in Reals({"Auto"}, {"Never"}, {"None"}),
   x \in {<<"1e2", <<1, 1, 2>>>>, <<"1E+2", <<1, 1, 2>>>>, <<"-1e-2", <<-1, 1, -2>>>>, <<"-1.5e1", <<-1, 15, 0>>>>,
          <<"10.0", <<1, 1, 1>>>>, <<"0.0", <<1, 0, 0>>>>, <<"0e5", <<1, 0, 0>>>>, <<"1.05", <<1, 105, -2>>>>,
          <<"0.001", <<1, 1, -3>>>>, <<"0.00012e-3", <<1, 12, -8>>>>, <<"100.25", <<1, 10025, -2>>>>,
          <<"1234.5", <<1, 12345, -1>>>>, <<"123456", <<1, 123456, 0>>>>, <<"12345.678", <<1, 12345678, -3>>>>,
          <<"-99999.9e9", <<-1, 999999, 8>>>>, <<"12345e-3", <<1, 12345, -3>>>>, <<"1.23456e2", <<1, 123456, -3>>>>}}
WrongReals ==
  {Wrong(type, string) :
   type \in Reals({"Auto"}, {"Never"}, {"None"}),
   string \in {"a", "+1", ".5", "-", "-.5", "-e1", "1.", "1.e1", "1e", "1e+", "--1", "01", "-a", "1..2", "1e2e3", "\"1\"", "null", "Inf"}}

(* Strings                                                                 *)
Points == {34, 92, 47, 10, 8, 1, 31, 97, 127, 233, 2047, 2048, 8364, 65535, 65536, 66600, 128512, 1114111}
Texts(k) == {[Type(k) EXCEPT !.high = h] : h \in BOOLEAN}
Utf8(points) == FlattenSeq([i \in DOMAIN points |-> utf32_to_utf8(points[i])])
StringValues ==
  {Value(type, Utf8(prefix \o suffix)) :
   type \in Texts("string"), prefix \in {<<>>, <<97>>, <<97, 97>>, <<97, 97, 97>>},
   suffix \in {<<>>} \cup {<<p>> : p \in Points} \cup {<<p, q>> : p \in {34, 233, 128512}, q \in {97, 92, 8364, 66600}}}
RawValues == {Value(type, value) : type \in Texts("raw"), value \in {<<>>, Text("abc"), Text("a\\nb"), <<195, 169>>, <<97, 1>>}}
StringTexts ==
  {[Foreign(type, "\"" \o before \o x[1] \o "\"", <<>>) EXCEPT !.value = Text(before) \o x[2]] :
   type \in Texts("string"), before \in {"", "a", "ab", "abcd"},
   x \in {<<"\\/", <<47>>>>, <<"\\u0041", <<65>>>>, <<"\\u00e9", <<195, 169>>>>, <<"\\u00E9x", <<195, 169, 120>>>>,
          <<"\\u20ac", <<226, 130, 172>>>>, <<"\\ud83d\\ude00", <<240, 159, 152, 128>>>>,
          <<"\\uDBFF\\uDFFF\\n", <<244, 143, 191, 191, 10>>>>, <<"\\uD800\\uDC00", <<240, 144, 128, 128>>>>,
          <<"\\\\\\\"", <<92, 34>>>>, <<"\\b\\f\\n\\r\\t", <<8, 12, 10, 13, 9>>>>, <<"\\u0008", <<8>>>>}}
WrongStrings ==
  {Wrong(type, string) :
   type \in Texts("string"), string \in {"\"a", "a\"", "\"a\\\"", "\"\\ \"", "\"\\u00\"", "\"\\u00zz\"", "\"\\q\"", "\"\\ude00\"", "\"\\ud83d\\u0041\"", "\"\\ud83d\"", "\"\\ud83d\\n12345\"", "1", "null"}}

(* Booleans                                                                *)
Bools == {[Type("bool") EXCEPT !.literal = l, !.nullable = n] : l \in Literals, n \in BOOLEAN}
BoolValues == {Value(type, <<v>>) : type \in Bools, v \in {0, 1}}
WrongBools ==
  {Wrong(type, string) : type \in {x \in Bools : x.literal = "Never" /\ ~ x.nullable},
   string \in {"tru", "True", "false0", "null", "0", "\"true\"", "t"}}

(* Points in time, counted here year by year                               *)
IsLeap(year) == year % 4 = 0 /\ (year % 100 # 0 \/ year % 400 = 0)
DaysOfMonth(year, month) ==
  CASE month \in {4, 6, 9, 11} -> 30 [] month = 2 -> IF IsLeap(year) THEN 29 ELSE 28 [] OTHER -> 31
DaysOfYears(first, last) ==
  365 * (last - first) + Cardinality({year \in first..(last - 1) : IsLeap(year)})
Days(year, month, day) ==
  (IF year >= 1970 THEN DaysOfYears(1970, year) ELSE - DaysOfYears(year, 1970))
    + SumSet({100 * m + DaysOfMonth(year, m) : m \in 1..(month - 1)}) - 100 * ((month * (month - 1)) \div 2) + day - 1
Dates1 == {[Type("date") EXCEPT !.unit = u] : u \in {1, 10 ^ 6}}
Calendar ==
  {<<1970, 1, 1>>, <<1970, 12, 31>>, <<1999, 12, 31>>, <<2000, 1, 1>>, <<2000, 2, 29>>, <<2000, 3, 1>>, <<2019, 9, 30>>,
   <<2023, 2, 28>>, <<2024, 2, 29>>, <<2100, 2, 28>>, <<2100, 3, 1>>, <<9999, 12, 31>>}
Before1970 == {<<1969, 12, 31>>, <<1968, 2, 29>>, <<1900, 3, 1>>, <<1601, 1, 1>>, <<1600, 2, 29>>}
DateValues ==
  {Value(type, <<Days(d[1], d[2], d[3]), t, 0>>) : type \in Dates1, d \in Calendar, t \in {0, 1, 3599, 3661, 43200, 86399}}
    \cup {Value(type, <<Days(2024, 2, 29), 86399, milli * 10 ^ 6>>) : type \in Dates1, milli \in {5, 100, 120, 999}}
    \cup {Value(Type("date"), <<Days(1999, 12, 31), 60, nano>>) : nano \in {1, 123456789, 999999999, 100000001}}
    \cup {Value(type, <<Days(d[1], d[2], d[3]), 0, 0>>) : type \in Dates1, d \in Before1970}
DateTexts ==
  {Foreign(Type("date"), "\"" \o x[1] \o "\"", <<Days(2024, 2, 29), x[2], x[3]>>) :
   x \in {<<"20240229T123456Z", 45296, 0>>, <<"2024-02-29T12:34Z", 45240, 0>>, <<"2024-02-29T12:34:56", 45296, 0>>,
          <<"20240229T1234", 45240, 0>>, <<"2024-02-29T12:34:56.25Z", 45296, 250000000>>,
          <<"2024-02-29T12:34:56.005+00:00", 45296, 5000000>>, <<"2024-02-29T00:00:00-0000", 0, 0>>,
          <<"+2024-02-29T12:34:56.000000001Z", 45296, 1>>}}
WrongDates ==
  {Wrong(Type("date"), string) :
   string \in {"\"2024-02-29\"", "\"2024-02-29T\"", "\"2024-02-29T12:34+00\"", "\"x-02-29T12:34Z\"", "\"2024-02-29T12:34Z", "1"}}

MCSamples ==
  UNION {IntegerValues, IntegerTexts, WrongIntegers, RealValues, NoNumbers, RealTexts, WrongReals, StringValues, RawValues,
         StringTexts, WrongStrings, BoolValues, WrongBools, DateValues, DateTexts, WrongDates}
    \cup Nulls(Plain("signed") \cup Plain("unsigned") \cup Reals({"Auto"}, {"Never"}, {"None"}) \cup Texts("string")
                 \cup Texts("raw") \cup Bools \cup Dates1)

(* Reals with a fraction that begins with zeros                            *)
MCReals == {Value(type, <<1, digits, exponent>>) :
            type \in Reals({"Auto"}, {"Never"}, {"None"}), digits \in {12, 105, 205, 999}, exponent \in -2..1}
===============================================================================
