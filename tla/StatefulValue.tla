--------------------------- MODULE StatefulValue ----------------------------
(***************************************************************************)
(* basic_stateful_json_value (daw_json_value_state.h): a class or array    *)
(* with the locations of the items found so far.  A request looks through  *)
(* the locations first and then goes on from the last of them, keeping     *)
(* what it passes; an exception keeps what was passed before it.           *)
(***************************************************************************)
EXTENDS ValueLookup, SequencesExt

CONSTANTS
  Hash,       \* name_hash
  SizeMax     \* numeric_limits<size_t>::max( )

ASSUME StateAssumption ==
  /\ Hash \in [Names -> Int]
  /\ SizeMax \in Nat
  /\ \A c \in Containers : Len(c.items) < SizeMax
  /\ \A i \in Indexes : i < SizeMax

VARIABLE locs \* m_locs: the name, its hash and the item of every location

vars == <<value, request, answer, locs>>

Location(k) ==
  [name |-> value.items[k], hash |-> Hash[value.items[k]], item |-> k]

\* Mutant: the names are not compared.
IsHashMatch(l, name) == l.hash = Hash[name]

\* is_match( name, hash )
IsMatch(l, name) == l.hash = Hash[name] /\ l.name = name

StateInit == Init /\ locs = <<>>

\* Mutant: the search begins with the location found last.
SameItem == IF locs = <<>> THEN 1 ELSE Last(locs).item

\* The item behind the last location.
NextItem == IF locs = <<>> THEN 1 ELSE Last(locs).item + 1

\* m_locs after the items up to last were passed.
Extended(last) ==
  locs \o [k \in 1 .. last - NextItem + 1 |-> Location(NextItem + k - 1)]

\* Where a search ended: m_locs, the position returned, whether it threw.
Moved(l, pos, threw) == [locs |-> l, pos |-> pos, threw |-> threw]

\* The least element of a set of positions.
Least(S) == CHOOSE i \in S : \A j \in S : i <= j

Cached(name) == {i \in DOMAIN locs : IsMatch(locs[i], name)}
Ahead(name)  == {k \in NextItem .. Len(value.items) : value.items[k] = name}

\* move_to( member ): an element of an array has no name, which is an exception.
MoveToName(name) ==
  LET size == Len(value.items)
  IN  CASE Cached(name) # {} -> Moved(locs, Least(Cached(name)) - 1, FALSE)
        [] Cached(name) = {} /\ value.kind = "array" /\ NextItem <= size ->
             Moved(locs, Len(locs), TRUE)
        [] Cached(name) = {} /\ value.kind = "class" /\ Ahead(name) # {} ->
             Moved(Extended(Least(Ahead(name))),
                   Len(locs) + Least(Ahead(name)) - NextItem, FALSE)
        [] OTHER -> Moved(Extended(size), Len(Extended(size)), value.broken)

\* move_to( index )
MoveToIndex(i) ==
  LET size == Len(value.items)
      item == NextItem + (i - Len(locs))
  IN  CASE i < Len(locs)                  -> Moved(locs, i, FALSE)
        [] i >= Len(locs) /\ item <= size -> Moved(Extended(item), i, FALSE)
        [] OTHER -> Moved(Extended(size), Len(Extended(size)), value.broken)

Exists(m) == m.pos < Len(m.locs)

\* The request r moved to m and is answered with a, unless moving threw.
Reply(r, m, a) ==
  /\ request' = r
  /\ locs' = m.locs
  /\ answer' = IF m.threw THEN Thrown ELSE a
  /\ UNCHANGED value

\* operator[]( key ), operator[]( member )
Member(name) ==
  LET m == MoveToName(name)
  IN  Reply([op |-> "member", key |-> name], m,
            IF Exists(m) THEN Value(m.locs[m.pos + 1].item) ELSE Thrown)

At(name) ==
  LET m == MoveToName(name)
  IN  Reply([op |-> "at", key |-> name], m,
            IF Exists(m) THEN Value(m.locs[m.pos + 1].item) ELSE Empty)

IndexOf(name) ==
  LET m == MoveToName(name)
  IN  Reply([op |-> "index_of", key |-> name], m, Position(m.pos))

ContainsName(name) ==
  LET m == MoveToName(name)
  IN  Reply([op |-> "contains", key |-> name], m, Truth(Exists(m)))

Size ==
  LET m == MoveToIndex(SizeMax)
  IN  Reply([op |-> "size"], m, Position(m.pos))

\* operator[]( index ), not negative.
ElementFromFront(i) ==
  LET m == MoveToIndex(i)
  IN  /\ i >= 0
      /\ Reply([op |-> "element", key |-> i], m,
               IF Exists(m) THEN Value(m.locs[m.pos + 1].item) ELSE Thrown)

\* Mutant: counted from the last of the items found so far.
ElementFromLocations(i) ==
  LET m == Moved(locs, Len(locs), FALSE)
  IN  /\ i < 0
      /\ Reply([op |-> "element", key |-> i], m,
               IF -i < m.pos THEN Value(m.locs[m.pos + i + 1].item) ELSE Thrown)

\* operator[]( index ), negative: counted from size( ), and less than that.
ElementFromBack(i) ==
  LET m == MoveToIndex(SizeMax)
  IN  /\ i < 0
      /\ Reply([op |-> "element", key |-> i], m,
               IF -i < m.pos THEN Value(m.locs[m.pos + i + 1].item) ELSE Thrown)

ResetValue(c) ==
  /\ value' = c
  /\ request' = None
  /\ answer' = Empty
  /\ locs' = <<>>

StateNext ==
  \/ \E name \in Names : Member(name) \/ At(name) \/ IndexOf(name) \/ ContainsName(name)
  \/ Size
  \/ \E i \in Indexes : ElementFromFront(i) \/ ElementFromBack(i)
  \/ \E c \in Containers : ResetValue(c)

StateSpec == StateInit /\ [][StateNext]_vars

-----------------------------------------------------------------------------
(* Properties.                                                             *)

Locations == [name : Names, hash : Int, item : Nat]

\* Positions are at most the size, values are those of items.
Results ==
  [is : {"value"}, of : DOMAIN value.items] \cup [is : {"position"}, of : 0 .. Len(value.items)]
    \cup [is : {"truth"}, of : BOOLEAN] \cup {Empty, Thrown}

StateTypeOK ==
  /\ value \in Containers
  /\ request \in Requests \cup {None}
  /\ answer \in Results
  /\ locs \in Seq(Locations)

\* The locations are those of the value's first items, none missing, none twice,
\* whatever was asked for and however the searches ended.
LocationsArePrefix ==
  /\ Len(locs) <= Len(value.items)
  /\ \A i \in DOMAIN locs : locs[i] = Location(i)

\* Every answer is the one that the value alone determines: the first member of the
\* name, the item of the index, the size; before and after exceptions and resets.
\* Minus the size may be answered or refused.
Promised == Spec

\* "If negative it returns the position from one past last, e.g. -1 is last item"
\* (daw_json_value_state.h:318): a negative index down to minus the size is that of
\* an item.  The assertion asks for less than the size (:330), so that it does not
\* hold.
IndexCountsFromEnd ==
  request.op = "element" /\ request.key < 0 => answer = ByIndex(value, request.key)
=============================================================================
