---------------------------- MODULE ValueLookup -----------------------------
(***************************************************************************)
(* What basic_stateful_json_value promises: every request is answered from *)
(* the class or array alone, whatever was asked before.                    *)
(***************************************************************************)
EXTENDS Integers, Sequences, FiniteSetsExt

CONSTANTS
  Names,      \* names of members and keys that are asked for
  NoName,     \* the empty name
  Containers, \* the classes and arrays considered
  Indexes     \* the indexes asked for, of a signed integer type

\* The names of a container's items are those of a class's members in the
\* document's order, repeated ones included; an array's elements have none.  Behind
\* the last item of a broken container comes text that is no item and no end of it.
ASSUME LookupAssumption ==
  /\ NoName \in Names
  /\ Containers \subseteq [kind : {"class", "array"}, items : Seq(Names), broken : BOOLEAN]
  /\ \A c \in Containers :
       c.kind = "array" => \A k \in DOMAIN c.items : c.items[k] = NoName
  /\ Indexes \subseteq Int

VARIABLES
  value,      \* m_value
  request,    \* what was asked last
  answer      \* what was answered

Keyed    == {"member", "at", "index_of", "contains"}
Requests == [op : Keyed, key : Names] \cup [op : {"size"}] \cup [op : {"element"}, key : Indexes]
None     == [op |-> "none"]

Value(k)    == [is |-> "value", of |-> k]    \* of item k
Position(n) == [is |-> "position", of |-> n]
Truth(b)    == [is |-> "truth", of |-> b]
Empty       == [is |-> "empty"]              \* an empty basic_json_value
Thrown      == [is |-> "thrown"]             \* an exception

\* The items of c that have the name.
Matching(c, name) == {k \in DOMAIN c.items : c.items[k] = name}

\* The answer if item k is the first of the name.
FoundAt(op, k) ==
  CASE op = "member"   -> Value(k)
    [] op = "at"       -> Value(k)
    [] op = "index_of" -> Position(k - 1)
    [] op = "contains" -> Truth(TRUE)

\* The answer if none of n items has the name.
NotFound(op, n) ==
  CASE op = "member"   -> Thrown
    [] op = "at"       -> Empty
    [] op = "index_of" -> Position(n)
    [] op = "contains" -> Truth(FALSE)

ByName(c, op, name) ==
  IF Matching(c, name) # {}
  THEN FoundAt(op, CHOOSE k \in Matching(c, name) : \A j \in Matching(c, name) : k <= j)
  ELSE IF c.broken THEN Thrown ELSE NotFound(op, Len(c.items))

\* A negative index counts from one past the last item: -1 is that of the last one
\* and minus the size that of the first.
ByIndex(c, i) ==
  CASE i >= 0 /\ i < Len(c.items)                -> Value(i + 1)
    [] i >= Len(c.items)                         -> Thrown
    [] i < 0 /\ ~c.broken /\ -i <= Len(c.items)  -> Value(Len(c.items) + i + 1)
    [] i < 0 /\ (c.broken \/ -i > Len(c.items))  -> Thrown

\* Asking an array for a name is an exception or finds what a class would.  Whether
\* minus the size is accepted for an index is left open: see IndexCountsFromEnd in
\* StatefulValue.
Answers(c, r) ==
  CASE r.op \in Keyed -> {ByName(c, r.op, r.key)} \cup
                           (IF c.kind = "array" THEN {Thrown} ELSE {})
    [] r.op = "size"    -> {IF c.broken THEN Thrown ELSE Position(Len(c.items))}
    [] r.op = "element" -> {ByIndex(c, r.key)} \cup
                           (IF r.key = -Len(c.items) THEN {Thrown} ELSE {})

Init == value \in Containers /\ request = None /\ answer = Empty

Ask(r) == request' = r /\ answer' \in Answers(value, r) /\ UNCHANGED value

Reset(c) == value' = c /\ request' = None /\ answer' = Empty

Next == (\E r \in Requests : Ask(r)) \/ (\E c \in Containers : Reset(c))

Spec == Init /\ [][Next]_<<value, request, answer>>
=============================================================================
