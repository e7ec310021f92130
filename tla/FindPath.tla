------------------------------ MODULE FindPath ------------------------------
(***************************************************************************)
(* find_json_path_stack_to (daw_json_find_path.h): the path from the root  *)
(* to the value nearest to a position in the document, found by a handler  *)
(* of the event parser.  The handler composes with EventParser: each of    *)
(* its callbacks answers a callback there and keeps a stack of its own.    *)
(***************************************************************************)
EXTENDS EventParser

CONSTANT Locations  \* [token, late]: in the text of a token, or behind it and
                    \* before the next; a string's closing quote is behind it

ASSUME LocationAssumption == Locations \subseteq [token : Nat, late : BOOLEAN]

VARIABLES
  loc,         \* parse_location
  parseStack,  \* the containers the handler is in
  lastPopped,  \* last_popped: the container that ended last, or <<>>
  state        \* the child of parseStack's top that was begun last

handler  == <<loc, parseStack, lastPopped, state>>
pathVars == <<vars, handler>>

\* json_path_node: m_value_start, m_index and the token m_name belongs to.
NoNode == [start |-> 0, index |-> -1, name |-> 0]

PathInit ==
  /\ Init
  /\ loc \in {l \in Locations : l.token \in DOMAIN doc}
  /\ parseStack = <<>>
  /\ lastPopped = <<>>
  /\ state = NoNode

\* child_of
ChildOf == IF parseStack = <<>> THEN "none" ELSE doc[Last(parseStack).start]

\* Mutant: the index is not reset in a class.
NodeOfKeepingIndex(t) ==
  [start |-> t,
   index |-> IF ChildOf = "none" THEN -1 ELSE state.index + 1,
   name  |-> IF ChildOf = "{" THEN t ELSE 0]

NodeOf(t) ==
  [start |-> t,
   index |-> IF ChildOf = "[" THEN state.index + 1 ELSE -1,
   name  |-> IF ChildOf = "{" THEN t ELSE 0]

\* handle_on_value: a value that begins behind the location ends the parse.
OnValue ==
  \/ /\ value > Len(doc) \/ loc.token < value
     /\ HandleValue("Complete")
     /\ UNCHANGED handler
  \/ /\ value <= Len(doc) /\ loc.token >= value
     /\ HandleValue("Continue")
     /\ state' = NodeOf(value)
     /\ lastPopped' = <<>>
     /\ UNCHANGED <<loc, parseStack>>

\* handle_on_array_start, handle_on_class_start
OnStart ==
  /\ HandleStart("Continue")
  /\ parseStack' = Append(parseStack, state)
  /\ state' = NoNode
  /\ UNCHANGED <<loc, lastPopped>>

\* The location is in the scalar value at hand.  get_string_view of a null has a
\* null pointer for both ends, so that nothing is in it; where it throws the parse
\* ends there, too.
InValue ==
  /\ value \in DOMAIN doc /\ doc[value] \in Scalars
  /\ \/ doc[value] = "v" /\ loc = [token |-> value, late |-> FALSE]
     \/ SkipValue(doc, value) = 0

\* handle_on_number, _bool, _string and _null: the parse ends in the value the
\* location is in.  There is no handle_on_error.
OnScalar ==
  \/ /\ InValue
     /\ HandleScalar("Complete")
     /\ parseStack' = Append(parseStack, state)
     /\ UNCHANGED <<loc, lastPopped, state>>
  \/ /\ ~InValue
     /\ HandleScalar("Continue")
     /\ UNCHANGED handler

\* Mutant: the child counted last is not restored.
OnEndForgetting ==
  /\ HandleEnd("Continue")
  /\ IF parseStack = <<>> THEN UNCHANGED <<parseStack, lastPopped, state>>
     ELSE /\ lastPopped' = <<Last(parseStack)>>
          /\ parseStack' = Front(parseStack)
          /\ state' = NoNode
  /\ UNCHANGED loc

\* Mutant: the container that ends is not popped.
OnEndKeeping ==
  /\ HandleEnd("Continue")
  /\ IF parseStack = <<>> THEN UNCHANGED <<lastPopped, state>>
     ELSE /\ lastPopped' = <<Last(parseStack)>>
          /\ state' = Last(parseStack)
  /\ UNCHANGED <<loc, parseStack>>

\* handle_on_array_end, handle_on_class_end
OnEnd ==
  /\ HandleEnd("Continue")
  /\ IF parseStack = <<>> THEN UNCHANGED <<parseStack, lastPopped, state>>
     ELSE /\ lastPopped' = <<Last(parseStack)>>
          /\ state' = Last(parseStack)
          /\ parseStack' = Front(parseStack)
  /\ UNCHANGED loc

PathNext ==
  \/ OnValue
  \/ OnStart
  \/ OnScalar
  \/ OnEnd
  \/ (NextElement \/ RejectEnd \/ Finish \/ Terminated) /\ UNCHANGED handler

PathSpec == PathInit /\ [][PathNext]_pathVars /\ WF_pathVars(PathNext)

\* The parser has other handlers, too, which answer as they like.  A parse with one
\* of them has no location and none of the state above.
NoLocation == [token |-> 0, late |-> FALSE]

OtherInit ==
  /\ Init
  /\ loc = NoLocation
  /\ parseStack = <<>>
  /\ lastPopped = <<>>
  /\ state = NoNode

AnyInit == PathInit \/ OtherInit

AnyNext ==
  \/ loc = NoLocation /\ Next /\ UNCHANGED handler
  \/ loc # NoLocation /\ PathNext

AnySpec == AnyInit /\ [][AnyNext]_pathVars /\ WF_pathVars(AnyNext)

-----------------------------------------------------------------------------
(* Properties.                                                             *)

\* What is returned; an exception of the parse is caught.
Result == parseStack \o lastPopped

\* The values begun before value t in the container that t is a child of.
Siblings(t) ==
  {s \in 1 .. t - 1 :
     StartsValue(doc, s) /\ Enclosing(doc, s) = Enclosing(doc, t)}

\* The node of the value that begins at t: its index in an array, its name in a
\* class, neither at the root.
TrueNode(t) ==
  LET parent == IF Enclosing(doc, t) = {} THEN "none" ELSE doc[Max(Enclosing(doc, t))]
  IN  [start |-> t,
       index |-> IF parent = "[" THEN Cardinality(Siblings(t)) ELSE -1,
       name  |-> IF parent = "{" THEN t ELSE 0]

\* p is the path to the value that begins at t: the containers t lies in, from the
\* outside in, and t.
IsPathTo(p, t) ==
  /\ {p[i].start : i \in DOMAIN p} = Enclosing(doc, t) \cup {t}
  /\ \A i, j \in DOMAIN p : i < j => p[i].start < p[j].start
  /\ \A i \in DOMAIN p : p[i] = TrueNode(p[i].start)

PathTypeOK ==
  /\ TypeOK
  /\ loc \in Locations
  /\ \A i \in DOMAIN parseStack : parseStack[i].start \in DOMAIN doc
  /\ Len(lastPopped) <= 1
  /\ state.start \in 0 .. Len(doc)

\* The handler's own stack stays in step with the parser's: it holds the
\* containers the parser is in, until the location is reached.
StacksAgree ==
  loc # NoLocation =>
    /\ PathTypeOK
    /\ GoesOn /\ ~Finished =>
         /\ Len(parseStack) = Len(stack)
         /\ \A i \in DOMAIN stack : doc[parseStack[i].start] = stack[i].kind

\* The path to a position in a scalar value other than null is the path to that
\* value, with every index and name on it, whatever was counted, skipped and left
\* again before.
ScalarIsFound ==
  Finished /\ IsValue(doc) /\ doc[loc.token] = "v" /\ ~loc.late =>
    IsPathTo(Result, loc.token)

\* Whatever is returned is the path to some value that begins no later than the
\* position, even if the document ends early or its brackets do not match.
ResultIsAPath ==
  Finished /\ Result # <<>> =>
    /\ Last(Result).start <= loc.token
    /\ ValueEnd(doc, 1) # 0 => IsPathTo(Result, Last(Result).start)

\* What a call returns for a position: the path to the scalar there, and otherwise
\* no path that the document does not have.
FindsThePath == loc # NoLocation => ScalarIsFound /\ ResultIsAPath
=============================================================================
