------------------------------ MODULE JsonTrees ------------------------------
(***************************************************************************)
(* What a text of tokens means, which value of JSON a value of a program   *)
(* stands for, and which values a JSON Schema accepts. These are the       *)
(* references that writing is compared with, and follow the JSON and JSON  *)
(* Schema standards, not the code.                                         *)
(***************************************************************************)
EXTENDS LinkTypes

(* Values of JSON. An object is a function from its names.                 *)
Tree(kind, text, members, items) == [kind |-> kind, text |-> text, members |-> members, items |-> items]
Leaf(kind, text) == Tree(kind, text, <<>>, <<>>)
Object(members) == Tree("object", "", members, <<>>)
Array(items) == Tree("array", "", <<>>, items)
NullTree == Leaf("literal", "null")
Malformed == Leaf("malformed", "")
WellFormed(tree) == tree # Malformed

(* Reading: a value and the place behind it, which is 0 if there is none.  *)
(* A lenient reader accepts a comma behind the last element.               *)
Read(tree, next) == [tree |-> tree, next |-> next]
Fails == Read(Malformed, 0)
Is(s, i, mark) == i \in DOMAIN s /\ s[i].kind = "mark" /\ s[i].text = mark
RECURSIVE ReadValue(_, _, _), ReadItems(_, _, _, _), ReadMembers(_, _, _, _)
ReadValue(s, i, lenient) ==
  CASE i \notin DOMAIN s -> Fails
    [] Is(s, i, "[") -> ReadItems(s, i + 1, <<>>, lenient)
    [] Is(s, i, "{") -> ReadMembers(s, i + 1, <<>>, lenient)
    [] OTHER -> IF s[i].kind = "mark" THEN Fails ELSE Read(Leaf(s[i].kind, s[i].text), i + 1)
ReadItems(s, i, items, lenient) ==
  LET item == ReadValue(s, i, lenient)  more == Append(items, item.tree)
  IN CASE Is(s, i, "]") /\ (items = <<>> \/ lenient) -> Read(Array(items), i + 1)
       [] Is(s, item.next, "]") -> Read(Array(more), item.next + 1)
       [] Is(s, item.next, ",") -> ReadItems(s, item.next + 1, more, lenient)
       [] OTHER -> Fails
ReadMembers(s, i, members, lenient) ==
  LET member == ReadValue(s, i + 2, lenient)
      more == [name \in DOMAIN members \cup {s[i].text} |-> IF name = s[i].text THEN member.tree ELSE members[name]]
      named == i \in DOMAIN s /\ s[i].kind = "string" /\ Is(s, i + 1, ":") /\ s[i].text \notin DOMAIN members
  IN CASE Is(s, i, "}") /\ (members = <<>> \/ lenient) -> Read(Object(members), i + 1)
       [] named /\ Is(s, member.next, "}") -> Read(Object(more), member.next + 1)
       [] named /\ Is(s, member.next, ",") -> ReadMembers(s, member.next + 1, more, lenient)
       [] OTHER -> Fails
TreeOf(text, lenient) ==
  LET s == SelectSeq(text, LAMBDA t : t.kind # "space")
      read == ReadValue(s, 1, lenient)
  IN IF read.next = Len(s) + 1 THEN read.tree ELSE Malformed

(* The JSON value of a value of a mapping type; a number that JSON has no  *)
(* number for is a string, if its type allows that.                        *)
Quoted(type, kind) == IF type.literal_as_string = "Always" THEN "string" ELSE kind
Allows(type, error) ==
  /\ type.literal_as_string # "Never"
  /\ type.allow_number_errors \in {"AllowNanInf", IF error = "NaN" THEN "AllowNaN" ELSE "AllowInf"}
RECURSIVE JsonOf(_, _)
ObjectOf(members, args) ==
  LET present == {i \in DOMAIN members : HasValue(members[i].type, args[i])}
      tagging == {i \in present : has_switcher(BaseMember(members[i].type))}
      tag_of(i) == BaseMember(members[i].type).dependent_member
      names == {members[i].name : i \in present} \cup {tag_of(i).name : i \in tagging}
      variant(i) == IF is_json_nullable(members[i].type) THEN args[i].value ELSE args[i]
      member(name) ==
        IF \E i \in present : members[i].name = name
        THEN LET i == CHOOSE i \in present : members[i].name = name IN JsonOf(members[i].type, args[i])
        ELSE LET i == CHOOSE i \in tagging : tag_of(i).name = name
             IN JsonOf(tag_of(i).type, BaseMember(members[i].type).switcher[variant(i).index])
  IN Object([name \in names |-> member(name)])
OrderedOf(members, args) ==
  LET place(i) == IF members[i].member_index >= 0 THEN members[i].member_index + 1 ELSE i
  IN Array([p \in 1..Max({0} \cup {place(i) : i \in DOMAIN members}) |->
             IF \E i \in DOMAIN members : place(i) = p
             THEN LET i == CHOOSE i \in DOMAIN members : place(i) = p IN JsonOf(members[i].type, args[i])
             ELSE NullTree])
ClassOf(type, value) ==
  CASE type.contract = "members" -> ObjectOf(type.parts, value)
    [] type.contract = "ordered" -> OrderedOf(type.parts, value)
    [] type.contract = "alias" -> JsonOf(type.parts, value)
    [] type.contract = "alternatives" -> JsonOf(type.parts[value.index], value.value)
PairOf(type, pair) ==
  Object(type.json_key_t.name :> JsonOf(type.json_key_t.type, pair.key) @@
         type.json_value_t.name :> JsonOf(type.json_value_t.type, pair.value))
MapOf(type, pairs) ==
  LET name(i) == JsonOf(type.json_key_t, pairs[i].key).text
  IN Object([n \in {name(i) : i \in DOMAIN pairs} |->
              LET i == CHOOSE i \in DOMAIN pairs : name(i) = n IN JsonOf(type.json_element_t, pairs[i].value)])
JsonOf(type, value) ==
  CASE type.expected_type = "Bool" -> Leaf(Quoted(type, "literal"), value)
    [] type.expected_type = "Real" ->
         (IF value \in {"NaN", "Infinity", "NegInfinity"} THEN Leaf(IF Allows(type, value) THEN "string" ELSE "none", value)
          ELSE Leaf(Quoted(type, "real"), value))
    [] type.expected_type \in {"Signed", "Unsigned"} -> Leaf(Quoted(type, "integer"), value)
    [] type.expected_type \in {"StringRaw", "StringEscaped", "Date"} -> Leaf("string", value)
    [] type.expected_type = "Custom" -> Leaf(IF type.custom_json_type = "Literal" THEN "number" ELSE "string", value)
    [] type.expected_type = "Unknown" -> TreeOf(value, FALSE)
    [] type.expected_type = "Null" -> IF value.has THEN JsonOf(type.member_type, value.value) ELSE NullTree
    [] type.expected_type \in {"Variant", "VariantTagged", "VariantIntrusive"} ->
         JsonOf(type.json_elements[value.index], value.value)
    [] type.expected_type = "Class" -> ClassOf(type, value)
    [] type.expected_type \in {"Array", "SizedArray"} ->
         Array([i \in DOMAIN value |-> JsonOf(type.json_element_t, value[i])])
    [] type.expected_type = "Tuple" -> Array([i \in DOMAIN value |-> JsonOf(type.sub_member_list[i], value[i])])
    [] type.expected_type = "KeyValueArray" -> Array([i \in DOMAIN value |-> PairOf(type, value[i])])
    [] type.expected_type = "KeyValue" -> MapOf(type, value)

RECURSIVE HasNone(_)
HasNone(tree) ==
  \/ tree.kind = "none"
  \/ \E i \in DOMAIN tree.items : HasNone(tree.items[i])
  \/ \E n \in DOMAIN tree.members : HasNone(tree.members[n])

(* Which members of a type depend on which                                 *)
PartTypes(type) ==
  CASE type.expected_type = "Null" -> <<type.member_type>>
    [] type.expected_type = "Class" ->
         (CASE type.contract \in {"members", "ordered"} -> [i \in DOMAIN type.parts |-> type.parts[i].type]
            [] type.contract = "alias" -> <<type.parts>>
            [] OTHER -> type.parts)
    [] type.expected_type \in {"Array", "SizedArray", "KeyValue"} -> <<type.json_element_t>>
    [] type.expected_type = "KeyValueArray" -> <<type.json_key_t.type, type.json_value_t.type>>
    [] type.expected_type = "Tuple" -> type.sub_member_list
    [] type.expected_type \in {"Variant", "VariantTagged", "VariantIntrusive"} -> type.json_elements
    [] OTHER -> <<>>
RECURSIVE Dependencies(_)
Dependencies(type) ==
  LET parts == PartTypes(type)
      own == IF type.expected_type = "Class" /\ type.contract = "members"
             THEN {<<type.parts[i].name, BaseMember(type.parts[i].type).dependent_member.name>> :
                     i \in {j \in DOMAIN parts : has_dependent_member(parts[j])}}
             ELSE {}
  IN own \cup UNION {Dependencies(parts[i]) : i \in DOMAIN parts}

(* Whether a schema accepts a value                                        *)
KindsOf ==
  [boolean |-> {"literal"}, integer |-> {"integer"}, number |-> {"integer", "real", "number"},
   string |-> {"string"}, array |-> {"array"}, object |-> {"object"}]
Texts(tree) == {tree.items[i].text : i \in DOMAIN tree.items}
RECURSIVE Accepts(_, _)
Accepts(schema, tree) ==
  LET says(keyword) == keyword \in DOMAIN schema.members
      of(keyword) == schema.members[keyword]
      named(keyword) == DOMAIN tree.members \cap DOMAIN of(keyword).members
      described == IF says("properties") THEN DOMAIN of("properties").members ELSE {}
  IN /\ schema.kind = "object"
     /\ says("type") => tree.kind \in KindsOf[of("type").text] /\ tree # NullTree
     /\ says("minimum") => tree.text # "-1"
     /\ says("properties") => \A n \in named("properties") : Accepts(of("properties").members[n], tree.members[n])
     /\ says("required") => Texts(of("required")) \subseteq DOMAIN tree.members
     /\ says("dependencies") =>
          \A n \in named("dependencies") : Texts(of("dependencies").members[n]) \subseteq DOMAIN tree.members
     /\ says("additionalProperties") =>
          \A n \in DOMAIN tree.members \ described : Accepts(of("additionalProperties"), tree.members[n])
     /\ says("items") =>
          \A i \in DOMAIN tree.items :
            IF of("items").kind = "object" THEN Accepts(of("items"), tree.items[i])
            ELSE i \in DOMAIN of("items").items => Accepts(of("items").items[i], tree.items[i])
     /\ says("oneOf") =>
          Cardinality({i \in DOMAIN of("oneOf").items : Accepts(of("oneOf").items[i], tree)}) = 1
==============================================================================
