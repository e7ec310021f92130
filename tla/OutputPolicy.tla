---------------------------- MODULE OutputPolicy ----------------------------
(***************************************************************************)
(* What text is written with: the options of an output, the level of       *)
(* indentation, and where the text goes. The text is a sequence of tokens; *)
(* a writer has a list of the steps it still has to do, and a step of the  *)
(* list writes, changes the level, begins a line, or is a value or a       *)
(* schema that a module on top of this one replaces by steps.              *)
(*                                                                         *)
(* A string takes everything. A span of characters takes a write as a      *)
(* whole or not at all, a stream a string view at a time, and both can be  *)
(* full. A pointer may be null.                                            *)
(***************************************************************************)
EXTENDS LinkTypes

VARIABLES flags,         \* the options, as bits
          sink,          \* where the text goes: [kind, room]
          out,           \* the text written so far
          level,         \* indentation_level
          todo,          \* the steps left
          status         \* "ready", "writing", "done" or "error"
policyVars == <<flags, sink, out, level, todo, status>>

policy_list ==
  <<[option |-> "SerializationFormat", width |-> 1, default |-> 0],
    [option |-> "IndentationType", width |-> 3, default |-> 2],
    [option |-> "RestrictedStringOutput", width |-> 1, default |-> 0],
    [option |-> "NewLineDelimiter", width |-> 1, default |-> 0],
    [option |-> "OutputTrailingComma", width |-> 1, default |-> 0]>>
output_flags(requested) ==
  FoldLeft(LAMBDA bits, o : set_bits(policy_list, bits, o.option, o.value),
           default_policy_flag(policy_list), requested)

serialization_format == IF get_bits_for(policy_list, flags, "SerializationFormat") = 0 THEN "Minified" ELSE "Pretty"
Indentations == <<"\t", " ", "  ", "   ", "    ", "     ", "        ", "          ">>
generate_indent == Indentations[get_bits_for(policy_list, flags, "IndentationType") + 1]
newline == IF get_bits_for(policy_list, flags, "NewLineDelimiter") = 0 THEN "\n" ELSE "\r\n"
output_trailing_comma == get_bits_for(policy_list, flags, "OutputTrailingComma") = 1

(* Tokens and steps                                                        *)
Token(kind, text) == [kind |-> kind, text |-> text]
Mark(text) == Token("mark", text)
White(text) == Token("space", text)
Str(text) == Token("string", text)
space == IF serialization_format = "Minified" THEN <<>> ELSE <<White(" ")>>

Step(op, text, type, value) == [op |-> op, text |-> text, type |-> type, value |-> value]
write(text) == Step("write", text, "", "")
put(c) == write(<<Mark(c)>>)
add_indent == Step("add_indent", <<>>, "", "")
del_indent == Step("del_indent", <<>>, "", "")
next_member == Step("next_member", <<>>, "", "")
output_newline == Step("output_newline", <<>>, "", "")
Trailing == IF output_trailing_comma THEN <<put(",")>> ELSE <<>>

Op(op) == status = "writing" /\ todo # <<>> /\ Head(todo).op = op
Continue == todo' = Tail(todo) /\ UNCHANGED <<flags, sink, status>>
Replace(steps) == todo' = steps \o Tail(todo) /\ UNCHANGED <<flags, sink, out, level, status>>
Fail == status' = "error" /\ todo' = <<>> /\ UNCHANGED <<flags, sink, level>>

(* How much of text the sink takes                                         *)
TakesOneMore(text) ==
  LET room == sink.room - Len(out)
  IN IF sink.kind = "string" \/ Len(text) <= room + 1 THEN Len(text) ELSE IF sink.kind = "span" THEN 0 ELSE room
Takes(text) ==
  LET room == sink.room - Len(out)
  IN IF sink.kind = "string" \/ Len(text) <= room THEN Len(text) ELSE IF sink.kind = "span" THEN 0 ELSE room

WriteText ==
  /\ Op("write")
  /\ LET text == Head(todo).text  taken == Takes(Head(todo).text)
     IN /\ out' = out \o SubSeq(text, 1, taken)
        /\ IF taken = Len(text) THEN Continue /\ UNCHANGED level ELSE Fail

AddIndent ==
  /\ Op("add_indent")
  /\ level' = IF serialization_format = "Minified" THEN level ELSE level + 1
  /\ Continue /\ UNCHANGED out

DelIndent ==
  /\ Op("del_indent")
  /\ level' = IF serialization_format = "Minified" THEN level ELSE level - 1
  /\ Continue /\ UNCHANGED out

OutputNewline ==
  /\ Op("output_newline")
  /\ Replace(IF serialization_format = "Minified" THEN <<>> ELSE <<write(<<White(newline)>>)>>)

IndentSteps == [n \in 1..level |-> write(<<White(generate_indent)>>)]
NextMember ==
  /\ Op("next_member")
  /\ Replace(<<output_newline>> \o IF serialization_format = "Minified" THEN <<>> ELSE IndentSteps)

Finish ==
  /\ status = "writing" /\ todo = <<>> /\ status' = "done"
  /\ UNCHANGED <<flags, sink, out, level, todo>>

Output == WriteText \/ AddIndent \/ DelIndent \/ OutputNewline \/ NextMember \/ Finish

(* A call begins to write; a null pointer is refused at once.              *)
Begin(steps) ==
  /\ out' = <<>> /\ level' = 0
  /\ IF sink.kind = "null" THEN status' = "error" /\ todo' = <<>>
                           ELSE status' = "writing" /\ todo' = steps
==============================================================================
