----------------------------- MODULE Containers -----------------------------
(***************************************************************************)
(* Filling containers: arrays, maps written as classes and maps written as *)
(* arrays of pairs, nested in one another. The container asks an iterator  *)
(* for one element after the other; the iterators of all of them move the  *)
(* one cursor there is, each through a pointer to it which it drops at its *)
(* closing bracket.                                                        *)
(*                                                                         *)
(* A text is a sequence of tokens: brackets, commas, colons, spaces,       *)
(* numbers "n", strings "s" and whole objects "o" that are pairs. A type   *)
(* is a sequence, from the outermost container to what the innermost one   *)
(* is filled with; it says of each how it is written and how many elements *)
(* it takes: a std::array takes no more than it has room for. The text is  *)
(* zero terminated and the parse checked. Containers and elements are      *)
(* named for the place at which their values begin.                        *)
(***************************************************************************)
EXTENDS Integers, Sequences, FiniteSets, JsonText

CONSTANTS Texts, Types

VARIABLES text, type,
          pos,      \* parse_state.first
          stack,    \* the containers being filled, innermost first
          phase,
          filled    \* the containers that have been given to their owners
vars == <<text, type, pos, stack, phase, filled>>

Containers == {"array", "map", "pairs"}
Token == [number |-> "n", string |-> "s", pair |-> "o"]
Starts == {"n", "s", "o", "[", "{"}
Symbols == Starts \cup Right \cup {",", ":"} \cup Space
Unlimited == -1

(* A container is filled with what follows, an array of pairs with pairs;  *)
(* only arrays are short of room.                                          *)
IsType(t) ==
  /\ t \in Seq([kind : Containers \cup DOMAIN Token, limit : Nat \cup {Unlimited}]) /\ t # <<>>
  /\ \A i \in DOMAIN t : (t[i].kind \in Containers) = (i < Len(t))
  /\ \A i \in DOMAIN t : t[i].kind = "pairs" => t[i + 1].kind = "pair"
  /\ \A i \in DOMAIN t : t[i].limit # 0 /\ (t[i].kind = "map" => t[i].limit = Unlimited)

ASSUME ContainersAssumption ==
  \A t \in Types : IsType(t) /\ Texts[t] \subseteq Seq(Symbols) \ {<<>>}

EndOfText == Len(text) + 1
Trim(p) == CHOOSE q \in p..EndOfText : At(text, q) \notin Space /\ \A r \in p..(q - 1) : text[r] \in Space
ClosingOf(t) == IF t.kind = "map" THEN "}" ELSE "]"

Init ==
  /\ type \in Types /\ text \in Texts[type]
  /\ pos = Trim(1) /\ stack = <<>> /\ phase = "value" /\ filled = {}

Want == type[Len(stack) + 1]
Mine == type[Len(stack)]
Fail == phase' = "failed" /\ UNCHANGED <<pos, stack, filled>>
Given == <<text, type>>

(* The element is handed to the container, whose iterator is stepped next. *)
Take(element, rest) ==
  IF rest = <<>> THEN stack' = <<>> /\ phase' = "done"
  ELSE /\ stack' = [rest EXCEPT ![1].taken = Append(@, element)]
       /\ phase' = "step"

(* A number is followed by the end of an item, a string by anything.       *)
AtEndOfItem(p) == p = EndOfText \/ At(text, p) \in {",", "}", "]", ":"} \cup Space
ParseScalar ==
  /\ phase = "value" /\ Want.kind \notin Containers
  /\ IF At(text, pos) # Token[Want.kind] \/ (Want.kind = "number" /\ ~AtEndOfItem(Trim(pos + 1)))
     THEN Fail
     ELSE /\ pos' = IF Want.kind = "string" THEN pos + 1 ELSE Trim(pos + 1)
          /\ Take(pos, stack) /\ UNCHANGED filled
  /\ UNCHANGED Given

(* The container that begins at b is filled by an iterator from p on,      *)
(* which is at its end if the closing bracket is there.                    *)
StartKeeping(t, b, p) ==    \* mutant: the bracket of an empty container is left
  /\ pos' = p /\ phase' = "fill" /\ UNCHANGED filled
  /\ stack' = <<[at |-> b, live |-> At(text, p) # ClosingOf(t), taken |-> <<>>]>> \o stack
Start(t, b, p) ==
  LET live == At(text, p) # ClosingOf(t)
  IN /\ pos' = IF live THEN p ELSE Trim(p + 1)
     /\ stack' = <<[at |-> b, live |-> live, taken |-> <<>>]>> \o stack
     /\ phase' = "fill" /\ UNCHANGED filled

EnterArray ==
  /\ phase = "value" /\ Want.kind = "array"
  /\ IF At(text, Trim(pos)) = "[" THEN Start(Want, Trim(pos), Trim(Trim(pos) + 1)) ELSE Fail
  /\ UNCHANGED Given
EnterMap ==
  /\ phase = "value" /\ Want.kind = "map"
  /\ IF At(text, pos) = "{" THEN Start(Want, pos, Trim(pos + 1)) ELSE Fail
  /\ UNCHANGED Given
EnterPairs ==               \* what follows the bracket is not trimmed
  /\ phase = "value" /\ Want.kind = "pairs"
  /\ IF At(text, pos) = "[" THEN Start(Want, pos, pos + 1) ELSE Fail
  /\ UNCHANGED Given

WantsAll(frame, limit) == frame.live    \* mutant: the room of the container is not looked at
Wants(frame, limit) == frame.live /\ Len(frame.taken) # limit

(* operator*: a map parses the key and the colon first.                    *)
Dereference ==
  /\ phase = "fill" /\ Wants(stack[1], Mine.limit) /\ Mine.kind # "map"
  /\ IF pos < EndOfText THEN phase' = "value" /\ UNCHANGED <<pos, stack, filled>> ELSE Fail
  /\ UNCHANGED Given
DereferenceKey ==
  /\ phase = "fill" /\ Wants(stack[1], Mine.limit) /\ Mine.kind = "map"
  /\ LET colon == Trim(pos + 1)
     IN IF At(text, pos) = "s" /\ At(text, colon) = ":"
        THEN pos' = Trim(colon + 1) /\ phase' = "value" /\ UNCHANGED <<stack, filled>>
        ELSE Fail
  /\ UNCHANGED Given

(* operator++: elements of arrays are followed by a comma or the bracket;  *)
(* a member of a map may be followed by the next one at once.              *)
BehindCommaNext(p) == IF At(text, p) = "," THEN p + 1 ELSE p    \* mutant: spaces stay behind the comma
BehindComma(p) == IF At(text, p) = "," THEN Trim(p + 1) ELSE p
AtNextElement(p) == p < EndOfText /\ At(text, p) \in {",", "]"}
StepToAnyhow(p) ==    \* mutant: a text that ends between elements is not noticed
  LET end == At(text, p) = ClosingOf(Mine)
  IN IF p >= EndOfText THEN UNCHANGED <<pos, stack, phase, filled>>
     ELSE /\ pos' = IF end THEN Trim(p + 1) ELSE p
          /\ stack' = [stack EXCEPT ![1].live = ~end]
          /\ phase' = "fill" /\ UNCHANGED filled
StepTo(p) ==
  LET end == At(text, p) = ClosingOf(Mine)
  IN IF p >= EndOfText THEN Fail
     ELSE /\ pos' = IF end THEN Trim(p + 1) ELSE p
          /\ stack' = [stack EXCEPT ![1].live = ~end]
          /\ phase' = "fill" /\ UNCHANGED filled
StepArrayAnyhow ==    \* mutant: the comma between elements is optional
  /\ phase = "step" /\ Mine.kind # "map"
  /\ StepTo(BehindComma(Trim(pos)))
  /\ UNCHANGED Given
StepArray ==
  /\ phase = "step" /\ Mine.kind # "map"
  /\ IF AtNextElement(Trim(pos)) THEN StepTo(BehindComma(Trim(pos))) ELSE Fail
  /\ UNCHANGED Given
StepMap ==
  /\ phase = "step" /\ Mine.kind = "map"
  /\ StepTo(BehindComma(Trim(pos)))
  /\ UNCHANGED Given

(* The container has what it takes; it does not see what is behind that.   *)
Complete ==
  /\ phase = "fill" /\ ~Wants(stack[1], Mine.limit)
  /\ filled' = filled \cup {[at |-> stack[1].at, taken |-> stack[1].taken]}
  /\ Take(stack[1].at, Tail(stack))
  /\ UNCHANGED <<pos, text, type>>

Next == \/ ParseScalar \/ EnterArray \/ EnterMap \/ EnterPairs
        \/ Dereference \/ DereferenceKey \/ StepArray \/ StepMap \/ Complete

Spec == Init /\ [][Next]_vars /\ WF_vars(Next)
------------------------------------------------------------------------------
(* What a text means, read off the brackets that are open behind each of   *)
(* its tokens, and off neighbouring tokens.                                *)
Opened ==
  LET code == [p \in DOMAIN text |-> "code"]
      behind[p \in 0..Len(text)] == IF p = 0 THEN <<>> ELSE BracketsAfter(text, code, behind[p - 1], p)
  IN behind

Tokens == {p \in 1..Len(text) : text[p] \notin Space}
Before(p) == LET q == {x \in Tokens : x < p} IN IF q = {} THEN 0 ELSE CHOOSE x \in q : \A y \in q : y <= x
Around(open, p) == IF open[Before(p)] = <<>> THEN "" ELSE open[Before(p)][1]

IsKey(open, p) == Around(open, p) = "{" /\ text[p] = "s" /\ text[Before(p)] # ":"
IsValue(open, p) ==
  /\ text[p] \in Starts
  /\ CASE Around(open, p) = "[" -> text[Before(p)] \in {"[", ","}
       [] Around(open, p) = "{" -> text[Before(p)] = ":"
       [] OTHER -> Before(p) = 0
EndsValue(open, p) == text[p] \in {"n", "s", "o", "]", "}"} /\ ~IsKey(open, p)

(* Whether a token may stand where it does in JSON; with lenient, commas   *)
(* behind the last element and none between members are let pass.          *)
Placed(open, p, lenient) ==
  \/ IsValue(open, p)
  \/ IsKey(open, p) /\ (lenient \/ text[Before(p)] \in {"{", ","})
  \/ text[p] = ":" /\ Before(p) # 0 /\ IsKey(open, Before(p))
  \/ text[p] \in {",", "]", "}"} /\ Before(p) # 0 /\ Around(open, p) # ""
     /\ (EndsValue(open, Before(p)) \/ (text[p] # "," /\ text[Before(p)] = Around(open, p)))
  \/ lenient /\ text[p] \in Right /\ Before(p) # 0 /\ text[Before(p)] = ","

(* The bracket that closes the one the text begins with, if there is one.  *)
End(open) ==
  LET ends == {p \in Tokens : open[p] = <<>>}
  IN IF ends = {} THEN 0 ELSE CHOOSE p \in ends : \A q \in ends : p <= q
Valid(open) ==
  /\ At(text, Trim(1)) \in Left /\ End(open) # 0
  /\ \A p \in Tokens : p <= End(open) => Placed(open, p, FALSE)

(* The values directly in the container that begins at p.                  *)
Elements(open, p) ==
  {q \in Tokens : /\ p < q /\ IsValue(open, q) /\ open[Before(q)] = open[p]
                  /\ \A r \in Tokens : p < r /\ r < q => open[r] # Tail(open[p])}

(* Every value on each level is of the type the level has.                 *)
Depth(open, p) == Len(open[Before(p)]) + 1
Opener(t) == IF t.kind = "map" THEN "{" ELSE IF t.kind \in Containers THEN "[" ELSE Token[t.kind]
Values(open) == {p \in Tokens : p <= End(open) /\ IsValue(open, p)}
OfType(open) == \A p \in Values(open) : Depth(open, p) \in DOMAIN type /\ text[p] = Opener(type[Depth(open, p)])

LimitAt(open, p) == type[Depth(open, p)].limit
Roomy(open, p) == text[p] \in Left /\ LimitAt(open, p) # Unlimited => Cardinality(Elements(open, p)) <= LimitAt(open, p)

(* The elements of S in order, from the first one on, as many as allowed.  *)
Lists(taken, S, limit) ==
  /\ \A i \in DOMAIN taken : taken[i] \in S
  /\ \A i, j \in DOMAIN taken : i < j => taken[i] < taken[j]
  /\ \A x \in S : \/ \E i \in DOMAIN taken : taken[i] = x
                  \/ Len(taken) = limit /\ \A i \in DOMAIN taken : taken[i] < x
------------------------------------------------------------------------------
TypeOK ==
  /\ phase \in {"value", "fill", "step", "done", "failed"}
  /\ pos \in 1..EndOfText
  /\ Len(stack) < Len(type) /\ (phase \in {"fill", "step"} => stack # <<>>)
  /\ \A i \in DOMAIN stack : stack[i].live \in BOOLEAN /\ (i > 1 => stack[i].live)

(* The outermost container has been filled and all containers that it has, *)
(* each once and with its own elements.                                    *)
AllFilled(open) ==
  /\ \E c \in filled : c.at = Trim(1)
  /\ \A c, d \in filled : c.at = d.at => c = d
  /\ \A c \in filled : Lists(c.taken, Elements(open, c.at), LimitAt(open, c.at))
  /\ \A c \in filled : \A i \in DOMAIN c.taken :
       text[c.taken[i]] \in Left => \E d \in filled : d.at = c.taken[i]

(* A container that is returned has every element of the text, once, in    *)
(* order and in the container it belongs to, as many as it has room for;   *)
(* if it had room for all, the cursor is behind its bracket. A container   *)
(* with too little room inside another is never taken for complete: the    *)
(* outer one is not at a comma then.                                       *)
TakesElements ==
  LET open == Opened
  IN phase = "done" /\ Valid(open) /\ OfType(open) =>
    /\ AllFilled(open)
    /\ Roomy(open, Trim(1)) => pos = Trim(End(open) + 1)
    /\ \A p \in Values(open) : p < pos /\ p # Trim(1) => Roomy(open, p)

(* Every JSON text of the type is accepted, but for an array of pairs with *)
(* a space behind its bracket.                                             *)
AcceptsSuitable ==
  LET open == Opened
  IN phase = "failed" =>
       \/ ~Valid(open) \/ ~OfType(open)
       \/ \E p \in Values(open) :
            \/ ~Roomy(open, p)
            \/ type[Depth(open, p)].kind = "pairs" /\ At(text, p + 1) \in Space

(* What has been accepted is JSON up to the cursor, but for commas behind  *)
(* a last element and missing ones between members; unless inner containers *)
(* are short of room, when the rest of one may pass for that of its owner. *)
AcceptsOnlyContainers ==
  LET open == Opened
  IN phase = "done" /\ (\A i \in 2..Len(type) : type[i].limit = Unlimited) =>
    \A p \in Tokens : p < pos => Placed(open, p, TRUE)

(* What is accepted is what should be, with the exceptions above.          *)
AcceptsContainers == TypeOK /\ AcceptsSuitable /\ AcceptsOnlyContainers

(* Every container is filled or refused.                                   *)
Ends == <>(phase \in {"done", "failed"})
=============================================================================
