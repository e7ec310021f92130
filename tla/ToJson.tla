------------------------------- MODULE ToJson -------------------------------
(***************************************************************************)
(* The calls that write: to_json_schema describes a mapping type, to_json  *)
(* and to_json_array write a value of it. The calls are made for the same  *)
(* output, the description first when there is one, so that what it says   *)
(* can be compared with what is written.                                   *)
(***************************************************************************)
EXTENDS Writer, SchemaWriter, JsonTrees

CONSTANTS Samples        \* types, with values, options and places to write to

VARIABLES call,          \* what is written: entry, type, value, options requested
          described      \* the text of the schema
vars == <<policyVars, call, described>>

Init ==
  /\ \E s \in DOMAIN Samples :
       \E requested \in Samples[s].options, place \in Samples[s].sinks :
         /\ call = [entry |-> "none", sample |-> s, requested |-> requested, type |-> Samples[s].type]
         /\ flags = output_flags(requested)
         /\ sink = place
  /\ out = <<>> /\ level = 0 /\ todo = <<>> /\ status = "ready" /\ described = <<>>

Sample == Samples[call.sample]
Starts(entry) == call' = [call EXCEPT !.entry = entry] /\ UNCHANGED <<flags, sink>>

CallSchema ==
  /\ status = "ready" /\ Sample.schema
  /\ Starts("to_json_schema") /\ Begin(SchemaDocument(call.type)) /\ UNCHANGED described

Ready == (status = "ready" /\ ~Sample.schema) \/ (status = "done" /\ call.entry = "to_json_schema")
CallToJson ==
  /\ Ready
  /\ \E i \in DOMAIN Sample.values :
       /\ call' = [entry |-> "to_json", sample |-> call.sample, requested |-> call.requested,
                   type |-> call.type, value |-> Sample.values[i]]
       /\ Begin(<<Val(call.type, Sample.values[i])>>)
  /\ described' = out /\ UNCHANGED <<flags, sink>>

to_json_array(element, value) ==
  <<put("["), add_indent>>
  \o Flat([i \in DOMAIN value |->
            <<next_member, Val(element, value[i])>> \o IF i < Len(value) THEN <<put(",")>> ELSE <<>>])
  \o <<del_indent>> \o (IF value = <<>> THEN <<>> ELSE <<output_newline>>) \o <<put("]")>>
CallToJsonArray ==
  /\ Ready /\ call.type.expected_type = "Array"
  /\ \E i \in DOMAIN Sample.values :
       /\ call' = [entry |-> "to_json_array", sample |-> call.sample, requested |-> call.requested,
                   type |-> call.type, value |-> Sample.values[i]]
       /\ Begin(to_json_array(call.type.json_element_t, Sample.values[i]))
  /\ described' = out /\ UNCHANGED <<flags, sink>>

Steps == (Output \/ WriteValue \/ WriteSchema) /\ UNCHANGED <<call, described>>
Ended == (status = "error" \/ (status = "done" /\ ~Ready)) /\ UNCHANGED vars
Next == CallSchema \/ CallToJson \/ CallToJsonArray \/ Steps \/ Ended
Spec == Init /\ [][Next]_vars
-----------------------------------------------------------------------------
Writes == {"to_json", "to_json_array"}
Written == status = "done" /\ call.entry \in Writes
Requested(option) ==
  LET i == SelectLastInSubSeq(call.requested, 1, Len(call.requested), LAMBDA o : o.option = option)
      j == SelectInSeq(policy_list, LAMBDA o : o.option = option)
  IN IF i > 0 THEN call.requested[i].value ELSE policy_list[j].default
Pretty == Requested("SerializationFormat") = 1
TrailingCommas == Requested("OutputTrailingComma") = 1
NotSpace == SelectSeq(out, LAMBDA t : t.kind # "space")
Opening == {Mark("["), Mark("{")}
Closers == {Mark("]"), Mark("}")}
Depth(tokens) ==
  Cardinality({i \in DOMAIN tokens : tokens[i] \in Opening}) - Cardinality({i \in DOMAIN tokens : tokens[i] \in Closers})

(* Types of the variables.                                                 *)
TypeOK ==
  /\ flags \subseteq 0..6
  /\ level \in 0..Len(out)
  /\ status \in {"ready", "writing", "done", "error"}
  /\ call.entry \in {"none", "to_json_schema", "to_json", "to_json_array"}
  /\ status = "done" => todo = <<>>
  /\ sink.kind # "string" => Len(out) <= sink.room

(* What has been written in full is JSON text, and the value of that text  *)
(* is the value that was given: a member written twice or left out, a      *)
(* comma too many, a bracket not closed or a name in the wrong place would *)
(* make it another text or none (to_daw_json_string).                      *)
WritesTheValue == Written => TreeOf(out, TrailingCommas) = JsonOf(call.type, call.value)

(* A schema is JSON text, and it accepts every value of its type as the    *)
(* same program writes it: what it requires is there, what depends on      *)
(* another member has it, and of the alternatives exactly one fits         *)
(* (daw_json_schema.h).                                                    *)
SchemaAccepts ==
  /\ status = "done" /\ call.entry = "to_json_schema" => WellFormed(TreeOf(out, FALSE))
  /\ Written /\ described # <<>> => Accepts(TreeOf(described, FALSE), TreeOf(out, TrailingCommas))

(* The member that a variant or an array depends on is written before it,  *)
(* at any level, so that a reader that meets the one knows the other       *)
(* (serialize_json_class: "Putting them ahead means we can parse this      *)
(* faster in the future").                                                 *)
KeyAt(i, name) == NotSpace[i] = Str(name) /\ i < Len(NotSpace) /\ NotSpace[i + 1] = Mark(":")
SameObject(i, j) ==
  \A n \in i..j : Depth(SubSeq(NotSpace, i, n)) >= 0 /\ (n = j => Depth(SubSeq(NotSpace, i, n)) = 0)
TagsInFront ==
  Written =>
    \A d \in Dependencies(call.type) : \A j \in DOMAIN NotSpace :
      KeyAt(j, d[1]) => \E i \in 1..(j - 1) : KeyAt(i, d[2]) /\ SameObject(i, j)

(* Each line is indented by the number of brackets open around it, with    *)
(* what was asked for, and the level is zero again at the end.             *)
IsNewline(t) == t.kind = "space" /\ t.text \in {"\n", "\r\n"}
Opened(n) == Depth(SubSeq(out, 1, n))
StartOfLine(i) == SelectLastInSubSeq(out, 1, i, IsNewline)
IndentedByDepth ==
  status = "done" =>
    /\ level = 0
    /\ \A i \in 2..Len(out) :
         LET start == StartOfLine(i - 1)
             first == out[i].kind # "space" /\ start > 0 /\ \A j \in start..(i - 1) : out[j].kind = "space"
             closes == IF out[i] \in Closers THEN 1 ELSE 0
         IN first => /\ i - 1 - start = Opened(i - 1) - closes
                     /\ \A j \in (start + 1)..(i - 1) : out[j].text = Indentations[Requested("IndentationType") + 1]

(* The text has the form that was asked for, whatever the options before   *)
(* were (set_bits, output_flags_t): no space at all when minified, the     *)
(* line ends requested, and a comma behind the last element exactly when   *)
(* requested, but for schemas and the array to_json_array itself writes.   *)
CommaDue(i) ==
  TrailingCommas /\ (call.entry = "to_json" \/ (call.entry = "to_json_array" /\ i < Len(NotSpace)))
HonoursFormat ==
  /\ IndentedByDepth
  /\ ~Pretty => \A i \in DOMAIN out : out[i].kind # "space"
  /\ \A i \in DOMAIN out : IsNewline(out[i]) => out[i].text = IF Requested("NewLineDelimiter") = 1 THEN "\r\n" ELSE "\n"
  /\ status = "done" /\ Pretty /\ Opened(1) = 1 /\ Len(NotSpace) > 2 => \E i \in DOMAIN out : IsNewline(out[i])
  /\ status = "done" =>
       \A i \in 2..Len(NotSpace) :
         NotSpace[i] \in {Mark("]"), Mark("}")} /\ NotSpace[i - 1] \notin Opening
           => ((NotSpace[i - 1] = Mark(",")) <=> CommaDue(i))

(* An error has a reason: the place is null, or full before the text was   *)
(* complete, or the value has a number that its type has no JSON for. In   *)
(* the last case there is always an error.                                 *)
ErrorHasReason ==
  /\ TypeOK
  /\ Written => ~HasNone(JsonOf(call.type, call.value))
  /\ status = "error" =>
       \/ sink.kind = "null"
       \/ sink.kind \in {"span", "stream"} /\ ~WellFormed(TreeOf(out, TrailingCommas))
       \/ call.entry \in Writes /\ HasNone(JsonOf(call.type, call.value))
==============================================================================
