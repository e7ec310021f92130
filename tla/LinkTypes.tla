------------------------------ MODULE LinkTypes ------------------------------
(***************************************************************************)
(* The mapping types: what a program says of the JSON form of its data. A  *)
(* mapping type is a record. Its expected_type selects how a value is      *)
(* written and described, its underlying_json_type which kind of JSON      *)
(* value it is; the other fields are the types it is built from.           *)
(*                                                                         *)
(* The options of a type or an output are bits of one word, here the set   *)
(* of the bits that are set. Every option has a place in a list and a      *)
(* width.                                                                  *)
(***************************************************************************)
EXTENDS Integers, Sequences, SequencesExt, FiniteSets

(* Options as bits                                                         *)
BitsOf(n) == {b \in 0..7 : (n \div 2^b) % 2 = 1}
option_bits_start(list, option) ==
  LET before == SelectInSeq(list, LAMBDA o : o.option = option) - 1
  IN FoldLeft(LAMBDA sum, o : sum + o.width, 0, SubSeq(list, 1, before))
Width(list, option) == list[SelectInSeq(list, LAMBDA o : o.option = option)].width
set_bits_for(list, option, n) == {option_bits_start(list, option) + b : b \in BitsOf(n)}
default_policy_flag(list) == UNION {set_bits_for(list, o.option, o.default) : o \in ToSet(list)}
Field(list, option) ==
  option_bits_start(list, option)..(option_bits_start(list, option) + Width(list, option) - 1)
set_bitsOverOld(list, flags, option, n) == flags \cup (set_bits_for(list, option, n) \cap Field(list, option))
set_bits(list, flags, option, n) ==
  (flags \ Field(list, option)) \cup (set_bits_for(list, option, n) \cap Field(list, option))
get_bits_for(list, flags, option) ==
  LET field == flags \cap Field(list, option)
  IN FoldSet(LAMBDA b, sum : sum + 2^(b - option_bits_start(list, option)), 0, field)

(* The types of values that are not built from others                      *)
json_number(expected_type, literal_as_string, allow_number_errors) ==
  [expected_type |-> expected_type, underlying_json_type |-> "Number",
   literal_as_string |-> literal_as_string, allow_number_errors |-> allow_number_errors]
json_bool(literal_as_string) ==
  [expected_type |-> "Bool", underlying_json_type |-> "Bool", literal_as_string |-> literal_as_string]
json_string_raw == [expected_type |-> "StringRaw", underlying_json_type |-> "String"]
json_string == [expected_type |-> "StringEscaped", underlying_json_type |-> "String"]
json_date == [expected_type |-> "Date", underlying_json_type |-> "String"]
json_custom(custom_json_type) ==
  [expected_type |-> "Custom", underlying_json_type |-> "String", custom_json_type |-> custom_json_type]
json_raw == [expected_type |-> "Unknown", underlying_json_type |-> "None"]

(* A type that may have no value, a member that is left out or null then   *)
json_nullable(member_type, nullable) ==
  [expected_type |-> "Null", underlying_json_type |-> member_type.underlying_json_type,
   member_type |-> member_type, nullable |-> nullable]

(* A class, by its contract: a list of named members, of ordered members   *)
(* (with the index of a json_tuple_member, or -1), another type in its     *)
(* place, or alternatives that have the tag inside.                        *)
Named(name, type) == [name |-> name, type |-> type]
Class(contract, parts) ==
  [expected_type |-> "Class", underlying_json_type |-> "Class", contract |-> contract, parts |-> parts]
json_member_list(members) == Class("members", members)
json_tuple_member(index, type) == [member_index |-> index, type |-> type]
json_tuple_member_list(members) == Class("ordered", members)
json_type_alias(type) == Class("alias", type)
json_submember_tagged_variant(classes) == Class("alternatives", classes)

(* Arrays, maps and tuples                                                 *)
json_array(element) ==
  [expected_type |-> "Array", underlying_json_type |-> "Array", json_element_t |-> element]
json_sized_array(element, dependent_member) ==
  [expected_type |-> "SizedArray", underlying_json_type |-> "Array", json_element_t |-> element,
   dependent_member |-> dependent_member]
json_key_lit_fix(type) ==
  IF type.expected_type \in {"Real", "Signed", "Unsigned", "Bool"}
  THEN [type EXCEPT !.literal_as_string = "Always"] ELSE type
json_key_value(element, key) ==
  [expected_type |-> "KeyValue", underlying_json_type |-> "Class", json_element_t |-> element,
   json_key_t |-> json_key_lit_fix(key)]
json_key_value_array(value, key) ==
  [expected_type |-> "KeyValueArray", underlying_json_type |-> "Array",
   json_key_t |-> Named("key", key), json_value_t |-> Named("value", value)]
json_tuple(types) ==
  [expected_type |-> "Tuple", underlying_json_type |-> "Array", sub_member_list |-> types]

(* Variants: told apart by the kind of JSON value, by a tag beside the     *)
(* value, or by a tag inside of it. The switcher gives an alternative's    *)
(* tag.                                                                    *)
json_variant(elements) ==
  [expected_type |-> "Variant", underlying_json_type |-> "None", json_elements |-> elements]
json_tagged_variant(elements, dependent_member, switcher) ==
  [expected_type |-> "VariantTagged", underlying_json_type |-> "None", json_elements |-> elements,
   dependent_member |-> dependent_member, switcher |-> switcher]
json_intrusive_variant(elements, tag_submember) ==
  [expected_type |-> "VariantIntrusive", underlying_json_type |-> "None", json_elements |-> elements,
   tag_submember |-> tag_submember]

is_json_nullable(type) == type.expected_type = "Null"
BaseMember(type) == IF is_json_nullable(type) THEN type.member_type ELSE type
has_dependent_member(type) == BaseMember(type).expected_type \in {"SizedArray", "VariantTagged"}
has_switcher(type) == type.expected_type = "VariantTagged"

(* Whether a value of a type is there; a type's nullable_value_traits say. *)
HasValue(type, value) == is_json_nullable(type) => value.has
==============================================================================
