---------------------------- MODULE EventParser -----------------------------
(***************************************************************************)
(* The event based parser, json_event_parser (daw_json_event_parser.h).    *)
(*                                                                         *)
(* A stack holds, for every container that is open, its kind and the       *)
(* iterator over its elements.  The loop advances the iterator on top and  *)
(* hands the element it was on to the handler, or, when the iterator is at *)
(* its end, pops it and reports the end of the container.  Every callback  *)
(* answers Continue, SkipClassArray or Complete.                           *)
(***************************************************************************)
EXTENDS JsonTokens, SequencesExt

CONSTANTS
  Documents,  \* the token sequences considered
  Results     \* the answers the handler may give

Answers == {"Continue", "SkipClassArray", "Complete"}

ASSUME EventAssumption ==
  /\ Documents \subseteq Seq(Tokens)
  /\ Results \subseteq Answers

VARIABLES
  doc,      \* the document
  stack,    \* parent_stack: the kind and the iterator of every open container
  depth,    \* class_depth ("{") and array_depth ("[")
  value,    \* the token of the value being handed to the handler
  phase,    \* where control is
  answers,  \* what the handler has answered so far
  events    \* the tokens the handler was told of, in the order it was

vars == <<doc, stack, depth, value, phase, answers, events>>

Phases   == {"value", "typed", "range", "done", "failed", "undefined"}
Finished == phase \in {"done", "failed", "undefined"}

\* A default constructed iterator: the end of every range.
NoIterator == 0

Top == Last(stack)

AtOpening == value \in DOMAIN doc /\ doc[value] \in Openings

Init ==
  /\ doc \in Documents
  /\ stack = <<>>
  /\ depth = [t \in Openings |-> 0]
  /\ value = 1
  /\ phase = "value"
  /\ answers = {}
  /\ events = <<>>

\* Mutant: the stack is left as it is when the handler has seen enough.
ReactKeepingStack(r, pushed, next) ==
  /\ answers' = answers \cup {r}
  /\ \/ /\ r = "Continue"
        /\ stack' = pushed
        /\ phase' = next
     \/ /\ r = "Complete"
        /\ stack' = stack
        /\ phase' = "range"
     \/ /\ r = "SkipClassArray"
        /\ stack' = IF stack = <<>> THEN <<>>
                    ELSE [stack EXCEPT ![Len(stack)].first = NoIterator]
        /\ phase' = IF stack = <<>> THEN "undefined" ELSE "range"

\* What the handler's answer does.  Continue leaves the stack as "pushed" and
\* goes on with phase "next".  SkipClassArray is move_to_last: the iterator on
\* top of the stack becomes the end of its range; the stack may be empty, and
\* what is behind the front of an empty vector is undefined.
React(r, pushed, next) ==
  /\ answers' = answers \cup {r}
  /\ \/ /\ r = "Continue"
        /\ stack' = pushed
        /\ phase' = next
     \/ /\ r = "Complete"
        /\ stack' = <<>>
        /\ phase' = "range"
     \/ /\ r = "SkipClassArray"
        /\ stack' = IF stack = <<>> THEN <<>>
                    ELSE [stack EXCEPT ![Len(stack)].first = NoIterator]
        /\ phase' = IF stack = <<>> THEN "undefined" ELSE "range"

\* handle_on_value, at the beginning of process_value.
HandleValue(r) ==
  /\ phase = "value"
  /\ React(r, stack, "typed")
  /\ UNCHANGED <<doc, depth, value, events>>

\* Mutant: the elements of a container are looked for behind its first one.
HandleStartLate(r) ==
  /\ phase = "typed"
  /\ AtOpening
  /\ depth' = [depth EXCEPT ![doc[value]] = @ + 1]
  /\ events' = Append(events, value)
  /\ React(r, Append(stack, [kind |-> doc[value], first |-> value + 2]), "range")
  /\ UNCHANGED <<doc, value>>

\* handle_on_class_start, handle_on_array_start.
HandleStart(r) ==
  /\ phase = "typed"
  /\ AtOpening
  /\ depth' = [depth EXCEPT ![doc[value]] = @ + 1]
  /\ events' = Append(events, value)
  /\ React(r, Append(stack, [kind |-> doc[value], first |-> value + 1]), "range")
  /\ UNCHANGED <<doc, value>>

\* handle_on_number, _bool, _string and _null; handle_on_error where no value
\* starts, which is at the beginning of the document only.
HandleScalar(r) ==
  /\ phase = "typed"
  /\ ~AtOpening
  /\ events' = Append(events, value)
  /\ React(r, stack, "range")
  /\ UNCHANGED <<doc, depth, value>>

\* process_range, the range is not empty: its iterator is advanced past the
\* element, which throws if the element cannot be skipped.
NextElement ==
  /\ phase = "range"
  /\ stack # <<>>
  /\ StartsValue(doc, Top.first)
  /\ IF SkipValue(doc, Top.first) = 0
     THEN /\ phase' = "failed"
          /\ UNCHANGED <<stack, value>>
     ELSE /\ phase' = "value"
          /\ value' = Top.first
          /\ stack' = [stack EXCEPT ![Len(stack)].first = SkipValue(doc, Top.first)]
  /\ UNCHANGED <<doc, depth, answers, events>>

\* Mutant: any closing bracket ends any container.
AtSomeEnd ==
  /\ depth[Top.kind] > 0
  /\ Top.first \in 1 .. Len(doc)

\* The assertion at the end of a range.
AtItsEnd ==
  /\ depth[Top.kind] > 0
  /\ Top.first \in 1 .. Len(doc)
  /\ doc[Top.first] = Partner[Top.kind]

\* Mutant: the depth is kept.
HandleEndKeepingDepth(r) ==
  /\ phase = "range"
  /\ stack # <<>>
  /\ ~StartsValue(doc, Top.first)
  /\ AtItsEnd
  /\ events' = Append(events, Top.first)
  /\ answers' = answers \cup {r}
  /\ stack' = IF r = "Complete" THEN <<>> ELSE Front(stack)
  /\ UNCHANGED <<doc, depth, value, phase>>

\* process_range at the end of the range: handle_on_class_end, _array_end.
HandleEnd(r) ==
  /\ phase = "range"
  /\ stack # <<>>
  /\ ~StartsValue(doc, Top.first)
  /\ AtItsEnd
  /\ depth' = [depth EXCEPT ![Top.kind] = @ - 1]
  /\ events' = Append(events, Top.first)
  /\ answers' = answers \cup {r}
  /\ stack' = IF r = "Complete" THEN <<>> ELSE Front(stack)
  /\ UNCHANGED <<doc, value, phase>>

\* Mutant: a range that ends with the wrong bracket is looked at again.
RetryEnd ==
  /\ phase = "range"
  /\ stack # <<>>
  /\ ~StartsValue(doc, Top.first)
  /\ ~AtItsEnd
  /\ UNCHANGED vars

RejectEnd ==
  /\ phase = "range"
  /\ stack # <<>>
  /\ ~StartsValue(doc, Top.first)
  /\ ~AtItsEnd
  /\ phase' = "failed"
  /\ UNCHANGED <<doc, stack, depth, value, answers, events>>

\* The loop has ended; the depths must be zero.
Finish ==
  /\ phase = "range"
  /\ stack = <<>>
  /\ phase' = IF \A t \in Openings : depth[t] = 0 THEN "done" ELSE "failed"
  /\ UNCHANGED <<doc, stack, depth, value, answers, events>>

Callback(r) == HandleValue(r) \/ HandleStart(r) \/ HandleScalar(r) \/ HandleEnd(r)

Terminated == Finished /\ UNCHANGED vars

Next ==
  \/ \E r \in Results : Callback(r)
  \/ NextElement
  \/ RejectEnd
  \/ Finish
  \/ Terminated

\* One sequential call; the handler's callbacks return.
Spec == Init /\ [][Next]_vars /\ WF_vars(Next)

-----------------------------------------------------------------------------
(* Properties.                                                             *)

TypeOK ==
  /\ doc \in Documents
  /\ stack \in Seq([kind : Openings, first : 0 .. Len(doc) + 1])
  /\ depth \in [Openings -> Int]
  /\ value \in 1 .. Len(doc) + 1
  /\ phase \in Phases
  /\ answers \subseteq Answers
  /\ events \in Seq(0 .. Len(doc) + 1)

\* The handler has asked for nothing but to go on.
GoesOn == answers \subseteq {"Continue"}

\* As long as the handler goes on, the depths count the containers that are open.
DepthsCountStack ==
  /\ TypeOK
  /\ GoesOn /\ phase # "failed" =>
       \A t \in Openings : depth[t] = Cardinality({i \in DOMAIN stack : stack[i].kind = t})

\* The handler is told of the tokens of the document one after the other: of each
\* value when it begins, of each container when it ends, of none twice and of none
\* before what precedes it, although the elements of a container are skipped over
\* before they are looked into.
TokenByToken == GoesOn => \A i \in DOMAIN events : events[i] = i

\* A parse that goes on to the end and returns has handed out a whole value:
\* brackets that do not match are an exception, even if skip_bracketed_item, which
\* counts them only, did not notice.  No document that starts with a value is
\* rejected.
AcceptsWholeValues ==
  GoesOn =>
    /\ phase = "done" /\ StartsValue(doc, 1) => Len(events) = ValueEnd(doc, 1)
    /\ ValueEnd(doc, 1) # 0 => phase # "failed"

\* "We are completed and do not wish to see any more": no event follows the answer
\* Complete.
NoEventAfterComplete == []["Complete" \in answers => UNCHANGED events]_vars

\* Every parse returns: the loop ends.
Returns == <>Finished
=============================================================================
