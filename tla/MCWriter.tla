------------------------------ MODULE MCWriter ------------------------------
(* Instances of ToJson: types of every kind, each within others, with      *)
(* values that have and lack what may be missing, in the formats and       *)
(* places there are.                                                       *)
EXTENDS ToJson

Option(option, value) == [option |-> option, value |-> value]
Lines == Option("SerializationFormat", 1)
Compact == <<>>
Indented2 == <<Lines>>
Windows == <<Lines, Option("IndentationType", 0), Option("NewLineDelimiter", 1)>>
Trailing5 == <<Lines, Option("IndentationType", 5), Option("OutputTrailingComma", 1)>>
Changed == <<Option("IndentationType", 7), Lines, Option("IndentationType", 4), Option("NewLineDelimiter", 1),
             Option("NewLineDelimiter", 0)>>
All == {Compact, Indented2, Windows, Trailing5, Changed, <<Option("OutputTrailingComma", 1)>>}
Plain == {Compact, Indented2, Windows, Changed}
Some == {Compact, Trailing5}

String == [kind |-> "string", room |-> 0]
Small == {[kind |-> kind, room |-> room] : kind \in {"span", "stream"}, room \in {0, 1, 2, 3, 5, 8, 13, 16}}
Sample1(type, values, options) == [type |-> type, values |-> values, options |-> options, sinks |-> {String}, schema |-> TRUE]
JsonOnly(type, values, options) == [Sample1(type, values, options) EXCEPT !.schema = FALSE]
Into(sinks, sample) == [sample EXCEPT !.sinks = sinks]

(* Types                                                                   *)
Integer == json_number("Signed", "Maybe", "None")
Natural == json_number("Unsigned", "Maybe", "None")
Real == json_number("Real", "Maybe", "None")
Quoted1 == json_number("Signed", "Always", "None")
NaNs(allowed) == json_number("Real", "Maybe", allowed)
Bool == json_bool("Maybe")
Text == json_string
Optional(type) == json_nullable(type, "Nullable")
Has(value) == [has |-> TRUE, value |-> value]
No(value) == [has |-> FALSE, value |-> value]
M(name, type) == Named(name, type)
Alt(index, value) == [index |-> index, value |-> value]
KV(key, value) == [key |-> key, value |-> value]

Point == json_member_list(<<M("x", Integer), M("y", Optional(Real))>>)
Empty == json_member_list(<<>>)
Nested == json_member_list(<<M("p", Point), M("l", json_array(Point)), M("e", Empty)>>)
Absent == json_member_list(<<M("a", Optional(Bool)), M("b", Optional(json_array(Integer)))>>)
Sized == json_member_list(<<M("a", json_sized_array(Integer, M("n", Natural))), M("n", Natural)>>)
TwoSized == json_member_list(<<M("b", Text), M("a", json_sized_array(Integer, M("n", Natural))),
                               M("c", json_sized_array(Text, M("n", Natural))), M("n", Natural)>>)
Tagged(type) == json_tagged_variant(<<Integer, Text, Point>>, M("t", type), <<"0", "1", "2">>)
InClass == json_member_list(<<M("b", Bool), M("v", Tagged(Natural)), M("w", Tagged(Natural))>>)
WithTag == json_member_list(<<M("v", Tagged(Text)), M("t", Text)>>)
MaybeTagged == json_member_list(<<M("b", Bool), M("v", Optional(Tagged(Natural)))>>)
Kinds == json_variant(<<Integer, Text, Bool, json_array(Integer), Point>>)
Intrusive == json_intrusive_variant(<<Point, Absent>>, M("x", Integer))
Distinct == json_intrusive_variant(<<Point, json_member_list(<<M("z", Integer)>>)>>, M("k", Integer))
Ordered == json_tuple_member_list(<<json_tuple_member(-1, Integer), json_tuple_member(-1, Point), json_tuple_member(-1, Text)>>)
Gaps == json_tuple_member_list(<<json_tuple_member(-1, Integer), json_tuple_member(3, Integer)>>)
Tuple == json_tuple(<<Integer, json_array(Text), json_tuple(<<Bool>>)>>)
Map == json_key_value(json_array(Natural), Text)
NumberMap == json_key_value(Point, Integer)
Pairs == json_key_value_array(Real, Text)
Scalars == json_tuple(<<Natural, Real, json_date, json_string_raw, json_custom("String"), Quoted1>>)
Odd == json_tuple(<<json_raw, json_custom("Literal"), json_bool("Always"), Quoted1>>)

Raw == <<Mark("["), Mark("]")>>
MCSamples == <<
  Sample1(Integer, <<"1", "-1">>, Plain), Sample1(Bool, <<"true">>, Plain), Sample1(json_date, <<"d">>, Plain),
  Sample1(Optional(Natural), <<Has("1")>>, Plain), JsonOnly(Optional(Natural), <<No("1")>>, Plain),
  Sample1(json_tuple(<<Natural, Real, json_date, json_string_raw, json_custom("String")>>), <<<<"1", "1.5", "d", "r", "c">>>>, Some),
  JsonOnly(Odd, <<<<Raw, "1", "true", "1">>>>, Some),
  JsonOnly(json_array(NaNs("None")), <<<<"1.5", "NaN">>, <<"Infinity">>>>, Some),
  JsonOnly(json_array(NaNs("AllowNaN")), <<<<"1.5", "NaN">>, <<"NaN", "NegInfinity">>>>, Some),
  JsonOnly(json_array(NaNs("AllowInf")), <<<<"1.5", "NegInfinity">>, <<"NaN">>>>, Some),
  JsonOnly(json_array(NaNs("AllowNanInf")), <<<<"Infinity", "NaN">>>>, Some),
  JsonOnly(json_number("Real", "Never", "AllowNaN"), <<"NaN", "1.5">>, Some),
  Sample1(Point, <<<<"1", Has("1.5")>>, <<"-1", No("1.5")>>>>, All),
  JsonOnly(Empty, <<<<>>>>, All),
  Sample1(Nested, <<<<<<"1", No("1.5")>>, <<>>, <<>>>>, <<<<"1", Has("1.5")>>, <<<<"1", No("1.5")>>, <<"-1", No("1.5")>>>>, <<>>>>>>, Some),
  Sample1(Absent, <<<<No("true"), No(<<>>)>>, <<Has("true"), No(<<>>)>>, <<No("true"), Has(<<>>)>>>>, Plain),
  Sample1(Sized, <<<<<<>>, "0">>, <<<<"1", "-1">>, "2">>>>, Plain),
  Sample1(TwoSized, <<<<"s", <<"1">>, <<"s">>, "1">>>>, Some),
  Sample1(InClass, <<<<"true", Alt(1, "1"), Alt(1, "-1")>>, <<"true", Alt(3, <<"1", No("1.5")>>), Alt(3, <<"1", No("1.5")>>)>>>>, Some),
  Sample1(WithTag, <<<<Alt(2, "s"), "1">>>>, All),
  JsonOnly(MaybeTagged, <<<<"true", Has(Alt(2, "s"))>>, <<"true", No(Alt(2, "s"))>>>>, All),
  Sample1(json_array(Kinds), <<<<Alt(1, "1"), Alt(2, "s"), Alt(3, "true"), Alt(4, <<>>)>>, <<Alt(4, <<"1">>), Alt(5, <<"1", No("1.5")>>)>>>>, Some),
  JsonOnly(Intrusive, <<Alt(2, <<Has("true"), Has(<<>>)>>)>>, Some),
  Sample1(Distinct, <<Alt(1, <<"1", No("1.5")>>), Alt(2, <<"1">>)>>, Some),
  JsonOnly(json_submember_tagged_variant(<<Point, Absent>>), <<Alt(1, <<"1", No("1.5")>>)>>, Some),
  Sample1(Ordered, <<<<"1", <<"1", No("1.5")>>, "s">>>>, All),
  JsonOnly(Gaps, <<<<"1", "-1">>>>, All),
  Sample1(Tuple, <<<<"1", <<>>, <<"true">>>>, <<"1", <<"s", "s">>, <<"true">>>>>>, All),
  Sample1(Map, <<<<>>, <<KV("k", <<"1">>), KV("l", <<>>)>>>>, All),
  JsonOnly(NumberMap, <<<<KV("1", <<"1", No("1.5")>>), KV("-1", <<"1", No("1.5")>>)>>>>, Some),
  Sample1(Pairs, <<<<>>, <<KV("k", "1.5"), KV("l", "1.5")>>>>, All),
  Sample1(json_array(json_array(Integer)), <<<<>>, <<<<"1">>, <<>>>>, <<<<>>, <<"1", "-1">>>>>>, All),
  JsonOnly(json_type_alias(json_array(Integer)), <<<<"1">>>>, Some),
  Into(Small, JsonOnly(json_array(Point), <<<<>>, <<<<"1", Has("1.5")>>>>>>, Some)),
  Into(Small, Sample1(Sized, <<<<<<>>, "0">>>>, {Compact})),
  Into({[kind |-> "null", room |-> 0]}, JsonOnly(json_array(Integer), <<<<"1">>>>, Some))
>>
=============================================================================
