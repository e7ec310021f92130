---------------------------- MODULE SchemaWriter ----------------------------
(***************************************************************************)
(* Writing the JSON Schema of a mapping type. Below the root every type    *)
(* has an object of its own; at the root the entries go to the object that *)
(* the document's own entries are in.                                      *)
(***************************************************************************)
EXTENDS OutputPolicy

Schema(type, is_root) == Step("schema", <<>>, type, is_root)
Sub(type) == <<Schema(type, FALSE)>>
output_kv(key, value) == <<write(<<Str(key), Mark(":")>> \o space \o value)>>
Comma == <<put(",")>>
CommaNext == <<put(","), next_member>>

Braces(body) == <<put("{"), add_indent>> \o body \o <<del_indent, next_member, put("}")>>
Scalar(is_root, body) ==
  IF is_root THEN body \o <<next_member>> ELSE Braces(<<next_member>> \o body)
Compound(is_root, body) ==
  IF is_root THEN <<next_member>> \o body \o <<next_member>> ELSE Braces(<<next_member>> \o body)

(* Scalars                                                                 *)
TypeNames ==
  [Bool |-> "boolean", Real |-> "number", Signed |-> "integer", Unsigned |-> "integer",
   StringRaw |-> "string", StringEscaped |-> "string", Date |-> "string", Custom |-> "string"]
TypeIs(name) == output_kv("type", <<Str(name)>>)
MoreOfScalar(expected_type) ==
  CASE expected_type = "Date" -> CommaNext \o output_kv("format", <<Str("date-time")>>)
    [] expected_type = "Unsigned" -> CommaNext \o output_kv("minimum", <<Token("integer", "0")>>)
    [] OTHER -> <<>>
ScalarSchema(type, is_root) ==
  Scalar(is_root, TypeIs(TypeNames[type.expected_type]) \o MoreOfScalar(type.expected_type))

(* Elements of a list, each on a line, between brackets that close on a    *)
(* line of their own                                                       *)
Each(steps, i) == (IF i = 1 THEN <<>> ELSE Comma) \o <<next_member>> \o steps
Listed(n, Steps(_)) == FlattenSeq([i \in 1..n |-> Each(Steps(i), i)])
Indented(steps) == <<add_indent>> \o steps \o <<del_indent, next_member>>
Positions(n, Steps(_)) == IF n = 0 THEN <<>> ELSE Indented(Listed(n, Steps))

(* Classes                                                                 *)
output_member_types(members) ==
  LET n == Len(members)
      member(i) == output_kv(members[i].name, <<>>) \o Sub(members[i].type) \o IF i < n THEN CommaNext ELSE <<>>
  IN IF n = 0 THEN <<>> ELSE Indented(<<next_member>> \o FlattenSeq([i \in 1..n |-> member(i)]))
RequiredAll(members) == members
Required(members) == SelectSeq(members, LAMBDA m : ~is_json_nullable(m.type))
output_required_members(members) ==
  LET required == Required(members)
      name(i) == <<write(<<Str(required[i].name)>>)>>
  IN IF members = <<>> THEN <<>> ELSE Indented(Listed(Len(required), name))
Dependent(members) == SelectSeq(members, LAMBDA m : has_dependent_member(m.type))
output_dependencies(members) ==
  LET dependent == Dependent(members)
      entry(i) == output_kv(dependent[i].name, <<Mark("[")>>)
                  \o Indented(<<next_member, write(<<Str(BaseMember(dependent[i].type).dependent_member.name)>>)>>)
                  \o <<put("]")>>
  IN IF dependent = <<>> THEN <<>>
     ELSE CommaNext \o output_kv("dependencies", <<Mark("{")>>) \o Indented(Listed(Len(dependent), entry)) \o <<put("}")>>
MemberListSchema(members) ==
  TypeIs("object") \o CommaNext
  \o output_kv("properties", <<Mark("{")>>) \o output_member_types(members) \o <<put("}")>> \o CommaNext
  \o output_kv("required", <<Mark("[")>>) \o output_required_members(members) \o <<put("]")>>
  \o output_dependencies(members)

ArrayOf(items) == output_kv("type", <<Str("array"), Mark(",")>>) \o <<next_member>> \o items
PositionsSchema(types) ==
  LET position(i) == Sub(types[i])
  IN ArrayOf(output_kv("items", <<Mark("[")>>) \o Positions(Len(types), position) \o <<put("]")>>)
ClassSchema(type, is_root) ==
  LET members == IF type.contract = "members" THEN MemberListSchema(type.parts)
                 ELSE PositionsSchema([i \in DOMAIN type.parts |-> type.parts[i].type])
      body == IF type.parts = <<>> THEN <<>> ELSE <<next_member>> \o members
  IN IF is_root THEN body ELSE Braces(body)

(* Arrays, maps, tuples and variants                                       *)
TupleSchema(type, is_root) == Compound(is_root, PositionsSchema(type.sub_member_list))
ArraySchema(element, is_root) == Compound(is_root, ArrayOf(output_kv("items", <<>>) \o Sub(element)))
json_class_t(type) == json_member_list(<<type.json_key_t, type.json_value_t>>)
KeyValueSchema(type, is_root) ==
  Compound(is_root, TypeIs("object") \o CommaNext \o output_kv("additionalProperties", <<>>) \o Sub(type.json_element_t))
VariantSchema(type, is_root) ==
  LET element(i) == Sub(type.json_elements[i])
  IN Compound(is_root, output_kv("oneOf", <<Mark("[")>>) \o Positions(Len(type.json_elements), element) \o <<put("]")>>)

to_json_schema(type, is_root) ==
  CASE type.expected_type \in DOMAIN TypeNames -> ScalarSchema(type, is_root)
    [] type.expected_type = "Class" -> ClassSchema(type, is_root)
    [] type.expected_type = "Null" -> <<Schema(type.member_type, is_root)>>
    [] type.expected_type = "Tuple" -> TupleSchema(type, is_root)
    [] type.expected_type \in {"Array", "SizedArray"} -> ArraySchema(type.json_element_t, is_root)
    [] type.expected_type = "KeyValue" -> KeyValueSchema(type, is_root)
    [] type.expected_type = "KeyValueArray" -> ArraySchema(json_class_t(type), is_root)
    [] type.expected_type \in {"Variant", "VariantTagged", "VariantIntrusive"} -> VariantSchema(type, is_root)

WriteSchema == Op("schema") /\ Replace(to_json_schema(Head(todo).type, Head(todo).value))

(* The whole document                                                      *)
SchemaDocument(type) ==
  <<put("{"), add_indent, next_member>>
  \o output_kv("$schema", <<Str("https://json-schema.org/draft/2020-12/schema"), Mark(",")>>) \o <<next_member>>
  \o output_kv("$id", <<Str("id"), Mark(",")>>) \o <<next_member>>
  \o output_kv("title", <<Str("title"), Mark(",")>>)
  \o <<Schema(type, TRUE), del_indent, next_member, put("}")>>
==============================================================================
