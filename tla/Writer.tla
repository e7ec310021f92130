------------------------------- MODULE Writer -------------------------------
(***************************************************************************)
(* Writing values. What is written for a value depends on its mapping type *)
(* alone; each operator below is one of the functions of the code, and     *)
(* gives the steps that function takes, the values inside of the value     *)
(* being steps of their own. A value of a class is the sequence of its     *)
(* members (what to_json_data returns), a variant [index, value], a value  *)
(* that may be missing [has, value], a map a sequence of [key, value].     *)
(***************************************************************************)
EXTENDS OutputPolicy

Val(type, value) == Step("value", <<>>, type, value)
Flat(steps) == FlattenSeq(steps)

(* Elements with a comma in front of each but the first                    *)
AfterCommaAlways(steps, i) == <<put(",")>> \o steps
AfterComma(steps, i) == IF i = 1 THEN steps ELSE <<put(",")>> \o steps

(* Scalars: the text of a number or a date is one token.                   *)
to_json_string_bool(type, value) ==
  <<write(<<Token(IF type.literal_as_string = "Always" THEN "string" ELSE "literal", value)>>)>>
Number(type, value, kind) ==
  <<write(<<Token(IF type.literal_as_string = "Always" THEN "string" ELSE kind, value)>>)>>
to_json_string_string(value) == <<write(<<Str(value)>>)>>
to_json_string_custom(type, value) ==
  <<write(<<Token(IF type.custom_json_type = "Literal" THEN "number" ELSE "string", value)>>)>>
to_json_string_unknown(value) == <<write(value)>>

(* A number that is none, or infinite: as a string, or not at all          *)
Errors == [NaN |-> "AllowNaN", Infinity |-> "AllowInf", NegInfinity |-> "AllowInf"]
ErrorTextExact(type, value) ==
  IF type.literal_as_string = "Never" \/ type.allow_number_errors # Errors[value]
  THEN <<Step("fail", <<>>, "", "")>> ELSE <<write(<<Str(value)>>)>>
ErrorText(type, value) ==
  IF \/ type.literal_as_string = "Never"
     \/ type.allow_number_errors \notin {Errors[value], "AllowNanInf"}
  THEN <<Step("fail", <<>>, "", "")>>
  ELSE <<write(<<Str(value)>>)>>
to_json_string_real(type, value) ==
  IF value \in DOMAIN Errors THEN ErrorText(type, value) ELSE Number(type, value, "real")

to_json_string_null(type, value) ==
  IF value.has THEN <<Val(type.member_type, value.value)>> ELSE <<write(<<Token("literal", "null")>>)>>
to_variant_string(type, value) == <<Val(type.json_elements[value.index], value.value)>>

(* The members of a class that are written, in order: first the tags and   *)
(* sizes that other members depend on, then the members; a name once.      *)
SwitcherTag(type, value) ==
  type.switcher[IF "has" \in DOMAIN value THEN value.value.index ELSE value.index]
find_names_in_pack(members, name) == SelectInSeq(members, LAMBDA m : m.name = name)
Entry(name, type, value) == [name |-> name, type |-> type, value |-> value]
AddTwice(done, entries) ==
  [visited |-> done.visited \cup {e.name : e \in ToSet(entries)}, entries |-> done.entries \o entries]
Add(done, entries) ==
  LET new == SelectSeq(entries, LAMBDA e : e.name \notin done.visited)
  IN [visited |-> done.visited \cup {e.name : e \in ToSet(entries)}, entries |-> done.entries \o new]

dependent_member_to_json_str(members, args, done, i) ==
  LET type == members[i].type  base == BaseMember(type)  member == base.dependent_member
      left_out == is_json_nullable(type) /\ type.nullable = "Nullable" /\ ~HasValue(type, args[i])
      value == IF has_switcher(base) THEN SwitcherTag(base, args[i])
               ELSE args[find_names_in_pack(members, member.name)]
  IN IF ~has_dependent_member(type) \/ left_out THEN done
     ELSE Add(done, <<Entry(member.name, member.type, value)>>)
to_json_str(members, args, done, i) ==
  LET member == members[i]
      first_seen == [done EXCEPT !.visited = @ \cup {member.name}]
  IN IF ~HasValue(member.type, args[i]) THEN first_seen
     ELSE Add(done, <<Entry(member.name, member.type, args[i])>>)

ClassEntriesInOrder(members, args) ==
  FoldLeft(LAMBDA done, i : dependent_member_to_json_str(members, args, to_json_str(members, args, done, i), i),
           [visited |-> {}, entries |-> <<>>], [i \in DOMAIN members |-> i]).entries
ClassEntries(members, args) ==
  LET indexes == [i \in DOMAIN members |-> i]
      tags == FoldLeft(LAMBDA done, i : dependent_member_to_json_str(members, args, done, i),
                       [visited |-> {}, entries |-> <<>>], indexes)
  IN FoldLeft(LAMBDA done, i : to_json_str(members, args, done, i), tags, indexes).entries

NameAndValue(name, type, value) ==
  <<next_member, write(<<Str(name), Mark(":")>> \o space), Val(type, value)>>
serialize_json_class(members, args) ==
  LET entries == ClassEntries(members, args)
  IN <<put("{"), add_indent>>
     \o Flat([i \in DOMAIN entries |->
               AfterComma(NameAndValue(entries[i].name, entries[i].type, entries[i].value), i)])
     \o <<del_indent>>
     \o (IF members = <<>> THEN <<>> ELSE Trailing \o <<next_member>>)
     \o <<put("}")>>

(* The members of an array that stands for a class, with nulls in gaps     *)
to_json_ordered_str(members, args, done, i) ==
  LET index == members[i].member_index
      gaps == IF index > done.array_idx THEN index - done.array_idx ELSE 0
      after == done.array_idx + gaps + 1
      null == <<next_member, write(<<Token("literal", "null"), Mark(",")>>), next_member>>
  IN [array_idx |-> after,
      steps |-> done.steps \o Flat([g \in 1..gaps |-> null]) \o <<Val(members[i].type, args[i])>>
                \o IF after < Len(members) THEN <<put(","), next_member>> ELSE <<>>]
serialize_ordered_json_class(members, args) ==
  LET elements == FoldLeft(LAMBDA done, i : to_json_ordered_str(members, args, done, i),
                           [array_idx |-> 0, steps |-> <<>>], [i \in DOMAIN members |-> i])
  IN <<put("["), add_indent, next_member>> \o elements.steps \o <<del_indent>>
     \o (IF members = <<>> THEN <<>> ELSE Trailing \o <<next_member>>)
     \o <<put("]")>>

to_json_string_class(type, value) ==
  CASE type.contract = "members" -> serialize_json_class(type.parts, value)
    [] type.contract = "ordered" -> serialize_ordered_json_class(type.parts, value)
    [] type.contract = "alias" -> <<Val(type.parts, value)>>
    [] type.contract = "alternatives" -> <<Val(type.parts[value.index], value.value)>>

(* Arrays, maps and tuples                                                 *)
ClosingLate(elements) == (IF elements = <<>> THEN <<>> ELSE Trailing \o <<next_member>>) \o <<del_indent>>
Closing(elements) == <<del_indent>> \o (IF elements = <<>> THEN <<>> ELSE Trailing \o <<next_member>>)
to_json_string_tuple(type, value) ==
  LET n == Len(type.sub_member_list)
  IN <<put("["), add_indent, next_member>>
     \o Flat([i \in 1..n |-> <<Val(type.sub_member_list[i], value[i])>>
                             \o IF i < n THEN <<put(","), next_member>> ELSE <<>>])
     \o Closing(value) \o <<put("]")>>
to_json_string_array(type, value) ==
  <<put("["), add_indent>>
  \o Flat([i \in DOMAIN value |->
            <<next_member, Val(type.json_element_t, value[i])>> \o IF i < Len(value) THEN <<put(",")>> ELSE <<>>])
  \o Closing(value) \o <<put("]")>>
Pair(type, pair) ==
  <<next_member, put("{"), add_indent>>
  \o NameAndValue(type.json_key_t.name, type.json_key_t.type, pair.key) \o <<put(",")>>
  \o NameAndValue(type.json_value_t.name, type.json_value_t.type, pair.value)
  \o <<del_indent>> \o Trailing \o <<next_member, put("}")>>
to_json_string_kv_array(type, value) ==
  <<put("["), add_indent>>
  \o Flat([i \in DOMAIN value |-> Pair(type, value[i]) \o IF i < Len(value) THEN <<put(",")>> ELSE <<>>])
  \o Closing(value) \o <<put("]")>>
to_json_string_kv(type, value) ==
  <<put("{"), add_indent>>
  \o Flat([i \in DOMAIN value |->
            <<next_member, Val(type.json_key_t, value[i].key), write(<<Mark(":")>> \o space),
              Val(type.json_element_t, value[i].value)>>
            \o IF i < Len(value) THEN <<put(",")>> ELSE <<>>])
  \o Closing(value) \o <<put("}")>>

(* One action per kind of value                                            *)
Next1(expected_types) == Op("value") /\ Head(todo).type.expected_type \in expected_types
T == Head(todo).type
V == Head(todo).value

WriteBool == Next1({"Bool"}) /\ Replace(to_json_string_bool(T, V))
WriteReal == Next1({"Real"}) /\ Replace(to_json_string_real(T, V))
(* What is not negative and not zero is above zero (:774 fails for none).  *)
WriteInteger == Next1({"Signed", "Unsigned"}) /\ Replace(Number(T, V, "integer"))
WriteString == Next1({"StringRaw", "StringEscaped", "Date"}) /\ Replace(to_json_string_string(V))
WriteCustom == Next1({"Custom"}) /\ Replace(to_json_string_custom(T, V))
WriteUnknown == Next1({"Unknown"}) /\ Replace(to_json_string_unknown(V))
WriteNull == Next1({"Null"}) /\ Replace(to_json_string_null(T, V))
WriteVariant ==
  Next1({"Variant", "VariantTagged", "VariantIntrusive"}) /\ Replace(to_variant_string(T, V))
WriteClass == Next1({"Class"}) /\ Replace(to_json_string_class(T, V))
WriteTuple == Next1({"Tuple"}) /\ Replace(to_json_string_tuple(T, V))
WriteArray == Next1({"Array", "SizedArray"}) /\ Replace(to_json_string_array(T, V))
WriteKeyValueArray == Next1({"KeyValueArray"}) /\ Replace(to_json_string_kv_array(T, V))
WriteKeyValue == Next1({"KeyValue"}) /\ Replace(to_json_string_kv(T, V))
Refuse == Op("fail") /\ Fail /\ UNCHANGED out

WriteValue ==
  \/ WriteBool \/ WriteReal \/ WriteInteger \/ WriteString \/ WriteCustom \/ WriteUnknown \/ WriteNull
  \/ WriteVariant \/ WriteClass \/ WriteTuple \/ WriteArray \/ WriteKeyValueArray \/ WriteKeyValue \/ Refuse
==============================================================================
