------------------------ MODULE StatefulValue_proofs ------------------------
(***************************************************************************)
(* Proofs about StatefulValue: the locations are the first items, and      *)
(* every answer is the one ValueLookup promises.                           *)
(***************************************************************************)
EXTENDS StatefulValue, WellFoundedInduction, TLAPS

USE DEF Thrown, Empty, Value, Position, Truth, None, Keyed, Moved

(***************************************************************************)
(* A set of positions that is not empty has a least element.               *)
(***************************************************************************)
LEMMA LeastIsLeast ==
  ASSUME NEW S \in SUBSET Nat, S # {}
  PROVE  Least(S) \in S /\ \A j \in S : Least(S) <= j
<1> DEFINE R == OpToRel(<, Nat)
<1>1. \A x, y \in Nat : y < x => <<y, x>> \in R
  BY DEF OpToRel
<1>2. PICK x \in S : \A y \in S : <<y, x>> \notin R
  BY NatLessThanWellFounded, WFMin
<1> HIDE DEF R
<1>3. ASSUME NEW y \in S PROVE x <= y
  <2>1. x \in Nat /\ y \in Nat
    OBVIOUS
  <2>2. ~(y < x)
    BY <1>1, <1>2, <2>1
  <2> QED
    BY <2>1, <2>2
<1>4. \E i \in S : \A j \in S : i <= j
  BY <1>3
<1> QED
  BY <1>4 DEF Least

(***************************************************************************)
(* ... and only one.                                                       *)
(***************************************************************************)
LEMMA LeastIs ==
  ASSUME NEW S \in SUBSET Nat, NEW i \in S, \A j \in S : i <= j
  PROVE  Least(S) = i
<1>1. Least(S) \in S /\ \A j \in S : Least(S) <= j
  BY LeastIsLeast
<1>2. Least(S) <= i /\ i <= Least(S) /\ Least(S) \in Nat /\ i \in Nat
  BY <1>1
<1> QED
  BY <1>2

-----------------------------------------------------------------------------
(* The inductive invariant.                                                *)

IInv ==
  /\ value \in Containers
  /\ locs \in Seq(Locations)
  /\ LocationsArePrefix

\* What every search leaves behind.
KeepsPrefix(m) ==
  /\ m.locs \in Seq(Locations)
  /\ Len(m.locs) <= Len(value.items)
  /\ \A i \in DOMAIN m.locs : m.locs[i] = Location(i)

LEMMA ContainerFacts ==
  ASSUME IInv
  PROVE  /\ value.items \in Seq(Names)
         /\ value.kind \in {"class", "array"}
         /\ value.broken \in BOOLEAN
         /\ Len(value.items) < SizeMax
         /\ Len(value.items) \in Nat
         /\ Len(locs) \in 0 .. Len(value.items)
         /\ NextItem = Len(locs) + 1
         /\ \A k \in 1 .. Len(value.items) :
              Location(k) \in Locations /\ Location(k).item = k /\ Location(k).name = value.items[k]
<1>1. /\ value.items \in Seq(Names)
      /\ value.kind \in {"class", "array"}
      /\ value.broken \in BOOLEAN
      /\ Len(value.items) < SizeMax
  BY LookupAssumption, StateAssumption DEF IInv
<1>2. Len(locs) \in 0 .. Len(value.items) /\ Len(value.items) \in Nat
  BY <1>1 DEF IInv, LocationsArePrefix
<1>3. ASSUME NEW k \in 1 .. Len(value.items)
      PROVE  Location(k) \in Locations /\ Location(k).item = k /\ Location(k).name = value.items[k]
  BY <1>1, <1>3, StateAssumption DEF Location, Locations
<1>4. NextItem = Len(locs) + 1
  <2>1. CASE locs = <<>>
    BY <2>1 DEF NextItem
  <2>2. CASE locs # <<>>
    <3>1. Len(locs) \in DOMAIN locs
      BY <2>2, <1>2 DEF IInv
    <3>2. locs[Len(locs)].item = Len(locs)
      BY <3>1, <1>2, <1>3 DEF IInv, LocationsArePrefix
    <3> QED
      BY <2>2, <3>2 DEF NextItem, Last
  <2> QED
    BY <2>1, <2>2
<1> QED
  BY <1>1, <1>2, <1>3, <1>4

(***************************************************************************)
(* Passing items extends the prefix.                                       *)
(***************************************************************************)
LEMMA ExtendedIsPrefix ==
  ASSUME IInv, NEW last \in Len(locs) .. Len(value.items)
  PROVE  /\ Extended(last) \in Seq(Locations)
         /\ Len(Extended(last)) = last
         /\ \A i \in DOMAIN Extended(last) : Extended(last)[i] = Location(i)
<1> DEFINE n  == last - NextItem + 1
           es == [k \in 1 .. n |-> Location(NextItem + k - 1)]
<1>1. n \in Nat /\ n = last - Len(locs) /\ last \in Nat /\ Len(locs) \in Nat /\ NextItem = Len(locs) + 1
  BY ContainerFacts
<1>2. \A k \in 1 .. n : es[k] = Location(Len(locs) + k) /\ es[k] \in Locations
  BY <1>1, ContainerFacts
<1>3. es \in Seq(Locations) /\ Len(es) = n
  BY <1>1, <1>2
<1> HIDE DEF n, es
<1>4. Extended(last) = locs \o es
  BY DEF Extended, es, n
<1>5. Extended(last) \in Seq(Locations) /\ Len(Extended(last)) = last
  BY <1>1, <1>3, <1>4 DEF IInv
<1>6. ASSUME NEW i \in 1 .. last PROVE Extended(last)[i] = Location(i)
  <2>1. CASE i <= Len(locs)
    <3>1. Extended(last)[i] = locs[i] /\ i \in DOMAIN locs
      BY <2>1, <1>1, <1>3, <1>4 DEF IInv
    <3> QED
      BY <3>1 DEF IInv, LocationsArePrefix
  <2>2. CASE i > Len(locs)
    <3>1. Extended(last)[i] = es[i - Len(locs)] /\ i - Len(locs) \in 1 .. n
      BY <2>2, <1>1, <1>3, <1>4 DEF IInv
    <3>2. Len(locs) + (i - Len(locs)) = i
      BY <1>1
    <3> QED
      BY <3>1, <3>2, <1>2
  <2> QED
    BY <2>1, <2>2, <1>1
<1> QED
  BY <1>5, <1>6

(***************************************************************************)
(* What a search for a name returns: the first item of the name, or the    *)
(* size; on an array it may throw.                                         *)
(***************************************************************************)
NameFound(m, name) ==
  LET found == Matching(value, name)
  IN  /\ KeepsPrefix(m)
      /\ m.threw \in BOOLEAN
      /\ m.threw = TRUE => value.kind = "array" \/ (found = {} /\ value.broken)
      /\ m.threw = FALSE /\ found # {} => m.pos = Least(found) - 1 /\ m.pos < Len(m.locs)
      /\ m.threw = FALSE /\ found = {} =>
           m.pos = Len(m.locs) /\ m.pos = Len(value.items) /\ ~value.broken

\* What a search for an index returns: the index, or the size.
IndexFound(m, i) ==
  /\ KeepsPrefix(m)
  /\ m.threw \in BOOLEAN
  /\ i < Len(value.items) => m.threw = FALSE /\ m.pos = i /\ i < Len(m.locs)
  /\ i >= Len(value.items) =>
       m.threw = value.broken /\ m.pos = Len(m.locs) /\ m.pos = Len(value.items)

(***************************************************************************)
(* A search for a name ends at the first item of the name, or behind the   *)
(* last item; on an array it may throw.                                    *)
(***************************************************************************)
LEMMA NameSearch ==
  ASSUME IInv, NEW name \in Names
  PROVE  NameFound(MoveToName(name), name)
<1> DEFINE m     == MoveToName(name)
           found == Matching(value, name)
           size  == Len(value.items)
<1>1. /\ size \in Nat /\ Len(locs) \in 0 .. size
      /\ NextItem = Len(locs) + 1
      /\ value.kind \in {"class", "array"} /\ value.broken \in BOOLEAN
      /\ DOMAIN value.items = 1 .. size /\ DOMAIN locs = 1 .. Len(locs)
      /\ \A k \in 1 .. size : Location(k).name = value.items[k]
                                /\ Location(k).hash = Hash[value.items[k]]
  BY ContainerFacts DEF IInv, Location
<1>2. KeepsPrefix([locs |-> locs, pos |-> 0, threw |-> FALSE])
  BY DEF KeepsPrefix, IInv, LocationsArePrefix
<1>3. \A last \in Len(locs) .. size :
        /\ Extended(last) \in Seq(Locations)
        /\ Len(Extended(last)) = last
        /\ \A i \in DOMAIN Extended(last) : Extended(last)[i] = Location(i)
  BY ExtendedIsPrefix
<1>4. Cached(name) = {i \in 1 .. Len(locs) : value.items[i] = name}
  BY <1>1 DEF Cached, IsMatch, IInv, LocationsArePrefix
<1>5. found = {i \in 1 .. size : value.items[i] = name} /\ found \in SUBSET Nat
  BY <1>1 DEF Matching
<1>6. CASE Cached(name) # {}
  <2>1. m = Moved(locs, Least(Cached(name)) - 1, FALSE)
    BY <1>6 DEF MoveToName
  <2>2. Cached(name) \in SUBSET Nat
    BY <1>4
  <2>3. Least(Cached(name)) \in Cached(name) /\ \A j \in Cached(name) : Least(Cached(name)) <= j
    BY <2>2, <1>6, LeastIsLeast
  <2>4. Least(Cached(name)) \in found /\ Least(Cached(name)) \in 1 .. Len(locs)
    BY <2>3, <1>4, <1>5, <1>1
  <2>5. \A j \in found : Least(Cached(name)) <= j
    BY <2>3, <2>4, <1>4, <1>5, <1>1
  <2>6. Least(found) = Least(Cached(name))
    BY <2>4, <2>5, <1>5, LeastIs
  <2> QED
    BY <2>1, <2>4, <2>6, <1>1, <1>2 DEF KeepsPrefix, NameFound
<1>7. CASE Cached(name) = {} /\ value.kind = "array" /\ NextItem <= size
  <2>1. m = Moved(locs, Len(locs), TRUE)
    BY <1>7 DEF MoveToName
  <2>2. KeepsPrefix(m)
    BY <2>1, <1>2 DEF KeepsPrefix
  <2>3. m.threw \in BOOLEAN /\ m.threw # FALSE
    BY <2>1
  <2>4. value.kind = "array"
    BY <1>7
  <2> QED
    BY <2>2, <2>3, <2>4 DEF NameFound
<1>8. CASE Cached(name) = {} /\ value.kind = "class" /\ Ahead(name) # {}
  <2> DEFINE k == Least(Ahead(name))
  <2>1. m = Moved(Extended(k), Len(locs) + k - NextItem, FALSE)
    BY <1>8 DEF MoveToName
  <2>2. Ahead(name) = {i \in Len(locs) + 1 .. size : value.items[i] = name} /\ Ahead(name) \in SUBSET Nat
    BY <1>1 DEF Ahead
  <2>3. k \in Ahead(name) /\ \A j \in Ahead(name) : k <= j
    BY <2>2, <1>8, LeastIsLeast
  <2> HIDE DEF k
  <2>4. k \in Len(locs) + 1 .. size /\ k \in found
    BY <2>2, <2>3, <1>1, <1>5
  <2>5. \A j \in found : k <= j
    <3>1. found = Ahead(name)
      BY <2>2, <1>4, <1>5, <1>1, <1>8
    <3> QED
      BY <3>1, <2>3
  <2>6. Least(found) = k
    BY <2>4, <2>5, <1>5, LeastIs
  <2>7. k \in Len(locs) .. size /\ Len(locs) + k - NextItem = k - 1 /\ k - 1 < k
    BY <2>4, <1>1
  <2> QED
    BY <2>1, <2>4, <2>6, <2>7, <1>3 DEF KeepsPrefix, NameFound
<1>9. CASE /\ Cached(name) = {}
           /\ ~(value.kind = "array" /\ NextItem <= size)
           /\ ~(value.kind = "class" /\ Ahead(name) # {})
  <2>1. m = Moved(Extended(size), Len(Extended(size)), value.broken)
    BY <1>9 DEF MoveToName
  <2>2. found = {}
    <3>1. CASE value.kind = "array"
      BY <3>1, <1>9, <1>1, <1>4, <1>5
    <3>2. CASE value.kind = "class"
      <4>1. \A i \in Len(locs) + 1 .. size : value.items[i] # name
        BY <3>2, <1>9, <1>1 DEF Ahead
      <4> QED
        BY <4>1, <1>9, <1>1, <1>4, <1>5
    <3> QED
      BY <3>1, <3>2, <1>1
  <2>3. size \in Len(locs) .. size
    BY <1>1
  <2> QED
    BY <2>1, <2>2, <2>3, <1>1, <1>3 DEF KeepsPrefix, NameFound
<1> QED
  BY <1>1, <1>6, <1>7, <1>8, <1>9

(***************************************************************************)
(* A search for an index ends at its item, or behind the last item.        *)
(***************************************************************************)
LEMMA IndexSearch ==
  ASSUME IInv, NEW i \in Nat
  PROVE  IndexFound(MoveToIndex(i), i)
<1> DEFINE m    == MoveToIndex(i)
           size == Len(value.items)
           item == NextItem + (i - Len(locs))
<1>1. /\ size \in Nat /\ Len(locs) \in 0 .. size /\ value.broken \in BOOLEAN
      /\ item = i + 1
  BY ContainerFacts
<1>2. \A last \in Len(locs) .. size :
        /\ Extended(last) \in Seq(Locations)
        /\ Len(Extended(last)) = last
        /\ \A k \in DOMAIN Extended(last) : Extended(last)[k] = Location(k)
  BY ExtendedIsPrefix
<1>3. CASE i < Len(locs)
  <2>1. m = Moved(locs, i, FALSE)
    BY <1>3 DEF MoveToIndex
  <2>2. KeepsPrefix(m)
    BY <2>1 DEF KeepsPrefix, IInv, LocationsArePrefix
  <2>3. m.locs = locs /\ m.pos = i /\ m.threw = FALSE
    BY <2>1
  <2>4. m.threw \in BOOLEAN
    BY <2>3
  <2>5. i < Len(value.items) /\ ~(i >= Len(value.items)) /\ i < Len(m.locs)
    BY <2>3, <1>1, <1>3
  <2> QED
    BY <2>2, <2>3, <2>4, <2>5 DEF IndexFound
<1>4. CASE i >= Len(locs) /\ item <= size
  <2>1. m = Moved(Extended(item), i, FALSE)
    BY <1>1, <1>4 DEF MoveToIndex
  <2>2. item \in Len(locs) .. size /\ i < size /\ i < item
    BY <1>1, <1>4
  <2>3. KeepsPrefix(m)
    BY <2>1, <2>2, <1>2 DEF KeepsPrefix
  <2>4. Len(m.locs) = item /\ m.pos = i /\ m.threw = FALSE
    BY <2>1, <2>2, <1>2
  <2>5. m.threw \in BOOLEAN
    BY <2>4
  <2>6. i < Len(value.items) /\ ~(i >= Len(value.items)) /\ i < Len(m.locs)
    BY <2>2, <2>4, <1>1
  <2> QED
    BY <2>3, <2>4, <2>5, <2>6 DEF IndexFound
<1>5. CASE i >= Len(locs) /\ item > size
  <2>1. m = Moved(Extended(size), Len(Extended(size)), value.broken)
    BY <1>1, <1>5 DEF MoveToIndex
  <2>2. size \in Len(locs) .. size /\ i >= size
    BY <1>1, <1>5
  <2> QED
    BY <2>1, <2>2, <1>1, <1>2 DEF KeepsPrefix, IndexFound
<1> QED
  BY <1>1, <1>3, <1>4, <1>5

-----------------------------------------------------------------------------
(* Every action keeps the invariant and is a step of ValueLookup.          *)

LEMMA ByNameIs ==
  ASSUME NEW c, NEW op, NEW name
  PROVE  ByName(c, op, name) =
           IF Matching(c, name) # {} THEN FoundAt(op, Least(Matching(c, name)))
           ELSE IF c.broken THEN Thrown ELSE NotFound(op, Len(c.items))
BY DEF ByName, Least

LEMMA ReplyKeepsPrefix ==
  ASSUME IInv, NEW r, NEW m, NEW a, KeepsPrefix(m), Reply(r, m, a)
  PROVE  IInv'
BY DEF IInv, KeepsPrefix, Reply, LocationsArePrefix, Location

(***************************************************************************)
(* An operation with a name is as promised if its answer is right for a    *)
(* search that does not throw.                                             *)
(***************************************************************************)
LEMMA NameReply ==
  ASSUME IInv, NEW name \in Names, NEW op \in Keyed, NEW a,
         Reply([op |-> op, key |-> name], MoveToName(name), a),
         MoveToName(name).threw = FALSE =>
           a = IF Matching(value, name) # {} THEN FoundAt(op, Least(Matching(value, name)))
               ELSE NotFound(op, Len(value.items))
  PROVE  IInv' /\ (\E r \in Requests : Ask(r))
<1> DEFINE m     == MoveToName(name)
           r     == [op |-> op, key |-> name]
           found == Matching(value, name)
<1>1. NameFound(m, name)
  BY NameSearch
<1>2. IInv'
  BY <1>1, ReplyKeepsPrefix DEF NameFound
<1>3. request' = r /\ answer' = (IF m.threw THEN Thrown ELSE a) /\ UNCHANGED value
  BY DEF Reply
<1>4. ByName(value, op, name) = IF found # {} THEN FoundAt(op, Least(found))
                                ELSE IF value.broken THEN Thrown ELSE NotFound(op, Len(value.items))
  BY ByNameIs
<1>5. Answers(value, r) = {ByName(value, op, name)} \cup
                            (IF value.kind = "array" THEN {Thrown} ELSE {})
  BY DEF Answers
<1>6. value.broken \in BOOLEAN
  BY ContainerFacts
<1>7. answer' \in Answers(value, r)
  <2>1. CASE m.threw = TRUE
    <3>1. answer' = Thrown
      BY <2>1, <1>3
    <3>2. value.kind = "array" \/ (found = {} /\ value.broken)
      BY <2>1, <1>1 DEF NameFound
    <3>3. CASE value.kind = "array"
      BY <3>1, <3>3, <1>5
    <3>4. CASE found = {} /\ value.broken
      BY <3>1, <3>4, <1>4, <1>5
    <3> QED
      BY <3>2, <3>3, <3>4
  <2>2. CASE m.threw = FALSE
    <3>1. answer' = a
      BY <2>2, <1>3
    <3>2. CASE found # {}
      BY <3>1, <3>2, <2>2, <1>4, <1>5
    <3>3. CASE found = {}
      <4>1. ~value.broken
        BY <3>3, <2>2, <1>1 DEF NameFound
      <4> QED
        BY <4>1, <3>1, <3>3, <2>2, <1>4, <1>5
    <3> QED
      BY <3>2, <3>3
  <2>3. m.threw \in BOOLEAN
    BY <1>1 DEF NameFound
  <2> QED
    BY <2>1, <2>2, <2>3
<1>8. r \in Requests
  BY DEF Requests
<1> QED
  BY <1>2, <1>3, <1>7, <1>8 DEF Ask

LEMMA FoundItem ==
  ASSUME IInv, NEW name \in Names, MoveToName(name).threw = FALSE
  PROVE  LET m     == MoveToName(name)
             found == Matching(value, name)
         IN  /\ found # {} => /\ m.pos < Len(m.locs)
                              /\ m.pos = Least(found) - 1
                              /\ m.locs[m.pos + 1].item = Least(found)
             /\ found = {} => m.pos = Len(m.locs) /\ m.pos = Len(value.items)
<1> DEFINE m     == MoveToName(name)
           found == Matching(value, name)
<1>1. NameFound(m, name)
  BY NameSearch
<1>2. ASSUME found # {}
      PROVE  /\ m.pos < Len(m.locs)
             /\ m.pos = Least(found) - 1
             /\ m.locs[m.pos + 1].item = Least(found)
  <2>1. m.pos < Len(m.locs) /\ m.pos = Least(found) - 1
    BY <1>1, <1>2 DEF NameFound
  <2>2. found \in SUBSET Nat /\ \A k \in found : k \in 1 .. Len(value.items)
    BY ContainerFacts DEF Matching
  <2>3. Least(found) \in 1 .. Len(value.items)
    BY <2>2, <1>2, LeastIsLeast
  <2>4. m.locs \in Seq(Locations) /\ \A i \in DOMAIN m.locs : m.locs[i] = Location(i)
    BY <1>1 DEF NameFound, KeepsPrefix
  <2>5. m.pos + 1 = Least(found) /\ Least(found) \in DOMAIN m.locs
    BY <2>1, <2>3, <2>4, ContainerFacts
  <2> QED
    BY <2>1, <2>3, <2>4, <2>5, ContainerFacts
<1>3. ASSUME found = {} PROVE m.pos = Len(m.locs) /\ m.pos = Len(value.items)
  BY <1>1, <1>3 DEF NameFound
<1> QED
  BY <1>2, <1>3

LEMMA NamedStep ==
  ASSUME IInv, NEW name \in Names,
         Member(name) \/ At(name) \/ IndexOf(name) \/ ContainsName(name)
  PROVE  IInv' /\ (\E r \in Requests : Ask(r))
<1> DEFINE m     == MoveToName(name)
           found == Matching(value, name)
<1>1. m.threw = FALSE =>
        /\ found # {} => Exists(m) /\ m.pos = Least(found) - 1
                           /\ m.locs[m.pos + 1].item = Least(found)
        /\ found = {} => ~Exists(m) /\ m.pos = Len(value.items)
  <2> SUFFICES ASSUME m.threw = FALSE
               PROVE  /\ found # {} => Exists(m) /\ m.pos = Least(found) - 1
                                         /\ m.locs[m.pos + 1].item = Least(found)
                      /\ found = {} => ~Exists(m) /\ m.pos = Len(value.items)
    OBVIOUS
  <2>1. /\ found # {} => /\ m.pos < Len(m.locs)
                         /\ m.pos = Least(found) - 1
                         /\ m.locs[m.pos + 1].item = Least(found)
        /\ found = {} => m.pos = Len(m.locs) /\ m.pos = Len(value.items)
    BY FoundItem
  <2>2. found = {} => ~(m.pos < Len(m.locs))
    BY <2>1, ContainerFacts
  <2> QED
    BY <2>1, <2>2 DEF Exists
<1>2. CASE Member(name)
  <2> DEFINE a == IF Exists(m) THEN Value(m.locs[m.pos + 1].item) ELSE Thrown
  <2>1. Reply([op |-> "member", key |-> name], m, a)
    BY <1>2 DEF Member
  <2>2. m.threw = FALSE => a = IF found # {} THEN FoundAt("member", Least(found))
                               ELSE NotFound("member", Len(value.items))
    BY <1>1 DEF FoundAt, NotFound
  <2> QED
    BY <2>1, <2>2, NameReply
<1>3. CASE At(name)
  <2> DEFINE a == IF Exists(m) THEN Value(m.locs[m.pos + 1].item) ELSE Empty
  <2>1. Reply([op |-> "at", key |-> name], m, a)
    BY <1>3 DEF At
  <2>2. m.threw = FALSE => a = IF found # {} THEN FoundAt("at", Least(found))
                               ELSE NotFound("at", Len(value.items))
    BY <1>1 DEF FoundAt, NotFound
  <2> QED
    BY <2>1, <2>2, NameReply
<1>4. CASE IndexOf(name)
  <2> DEFINE a == Position(m.pos)
  <2>1. Reply([op |-> "index_of", key |-> name], m, a)
    BY <1>4 DEF IndexOf
  <2>2. m.threw = FALSE => a = IF found # {} THEN FoundAt("index_of", Least(found))
                               ELSE NotFound("index_of", Len(value.items))
    BY <1>1 DEF FoundAt, NotFound
  <2> QED
    BY <2>1, <2>2, NameReply
<1>5. CASE ContainsName(name)
  <2> DEFINE a == Truth(Exists(m))
  <2>1. Reply([op |-> "contains", key |-> name], m, a)
    BY <1>5 DEF ContainsName
  <2>2. m.threw = FALSE => a = IF found # {} THEN FoundAt("contains", Least(found))
                               ELSE NotFound("contains", Len(value.items))
    <3>1. Exists(m) \in BOOLEAN
      BY DEF Exists
    <3>2. CASE found # {}
      <4>1. m.threw = FALSE => Exists(m) = TRUE
        BY <3>1, <3>2, <1>1
      <4>2. FoundAt("contains", Least(found)) = Truth(TRUE)
        BY DEF FoundAt
      <4> QED
        BY <3>2, <4>1, <4>2
    <3>3. CASE found = {}
      <4>1. m.threw = FALSE => Exists(m) = FALSE
        BY <3>1, <3>3, <1>1
      <4>2. NotFound("contains", Len(value.items)) = Truth(FALSE)
        BY DEF NotFound
      <4> QED
        BY <3>3, <4>1, <4>2
    <3> QED
      BY <3>2, <3>3
  <2> QED
    BY <2>1, <2>2, NameReply
<1> QED
  BY <1>2, <1>3, <1>4, <1>5

\* What size( ) moves to.
LEMMA SizeSearch ==
  ASSUME IInv
  PROVE  LET m == MoveToIndex(SizeMax)
         IN  /\ KeepsPrefix(m)
             /\ m.threw = value.broken /\ m.threw \in BOOLEAN
             /\ m.pos = Len(m.locs) /\ m.pos = Len(value.items)
<1>1. SizeMax \in Nat /\ SizeMax >= Len(value.items)
  BY ContainerFacts, StateAssumption
<1>2. IndexFound(MoveToIndex(SizeMax), SizeMax)
  BY <1>1, IndexSearch
<1> QED
  BY <1>1, <1>2 DEF IndexFound

LEMMA SizeStep ==
  ASSUME IInv, Size
  PROVE  IInv' /\ (\E r \in Requests : Ask(r))
<1> DEFINE m == MoveToIndex(SizeMax)
           r == [op |-> "size"]
<1>1. Reply(r, m, Position(m.pos))
  BY DEF Size
<1>2. IInv'
  BY <1>1, SizeSearch, ReplyKeepsPrefix
<1>3. answer' = (IF value.broken THEN Thrown ELSE Position(Len(value.items)))
  BY <1>1, SizeSearch DEF Reply
<1>4. Answers(value, r) = {IF value.broken THEN Thrown ELSE Position(Len(value.items))}
  BY DEF Answers
<1>5. r \in Requests
  BY DEF Requests
<1> QED
  BY <1>1, <1>2, <1>3, <1>4, <1>5 DEF Ask, Reply

LEMMA FrontStep ==
  ASSUME IInv, NEW i \in Indexes, ElementFromFront(i)
  PROVE  IInv' /\ (\E r \in Requests : Ask(r))
<1> DEFINE m == MoveToIndex(i)
           r == [op |-> "element", key |-> i]
           a == IF Exists(m) THEN Value(m.locs[m.pos + 1].item) ELSE Thrown
<1>1. i >= 0 /\ Reply(r, m, a)
  BY DEF ElementFromFront
<1>2. i \in Nat
  BY <1>1, LookupAssumption
<1>3. IndexFound(m, i)
  BY <1>2, IndexSearch
<1>4. IInv'
  BY <1>1, <1>3, ReplyKeepsPrefix DEF IndexFound
<1>5. r \in Requests
  BY DEF Requests
<1>6. answer' \in Answers(value, r)
  <2>1. ByIndex(value, i) \in Answers(value, r)
    BY DEF Answers
  <2>2. CASE i < Len(value.items)
    <3>1. m.threw = FALSE /\ m.pos = i /\ i < Len(m.locs)
      BY <2>2, <1>3 DEF IndexFound
    <3>2. m.locs[i + 1].item = i + 1
      BY <3>1, <2>2, <1>2, <1>3, ContainerFacts DEF IndexFound, KeepsPrefix
    <3>3. a = Value(i + 1)
      BY <3>1, <3>2 DEF Exists
    <3>4. ByIndex(value, i) = Value(i + 1)
      BY <2>2, <1>2, ContainerFacts DEF ByIndex
    <3> QED
      BY <3>1, <3>3, <3>4, <2>1, <1>1 DEF Reply
  <2>3. CASE i >= Len(value.items)
    <3>1. m.pos = Len(m.locs) /\ m.pos = Len(value.items)
      BY <2>3, <1>3 DEF IndexFound
    <3>2. a = Thrown
      BY <3>1, ContainerFacts DEF Exists
    <3>3. ByIndex(value, i) = Thrown
      BY <2>3, <1>2, ContainerFacts DEF ByIndex
    <3> QED
      BY <3>2, <3>3, <2>1, <1>1 DEF Reply
  <2> QED
    BY <2>2, <2>3, <1>2, ContainerFacts
<1> QED
  BY <1>1, <1>4, <1>5, <1>6 DEF Ask, Reply

LEMMA BackStep ==
  ASSUME IInv, NEW i \in Indexes, ElementFromBack(i)
  PROVE  IInv' /\ (\E r \in Requests : Ask(r))
<1> DEFINE m    == MoveToIndex(SizeMax)
           r    == [op |-> "element", key |-> i]
           a    == IF -i < m.pos THEN Value(m.locs[m.pos + i + 1].item) ELSE Thrown
           size == Len(value.items)
<1>1. i < 0 /\ Reply(r, m, a)
  BY DEF ElementFromBack
<1>2. i \in Int /\ size \in Nat
  BY LookupAssumption, ContainerFacts
<1>3. KeepsPrefix(m) /\ m.threw = value.broken /\ m.pos = Len(m.locs) /\ m.pos = size
  BY SizeSearch
<1>4. IInv'
  BY <1>1, <1>3, ReplyKeepsPrefix
<1>5. r \in Requests
  BY DEF Requests
<1>6. answer' \in Answers(value, r)
  <2>1. ByIndex(value, i) \in Answers(value, r) /\ (i = -size => Thrown \in Answers(value, r))
    BY DEF Answers
  <2>2. CASE value.broken
    <3>1. ByIndex(value, i) = Thrown
      BY <2>2, <1>1, <1>2 DEF ByIndex
    <3> QED
      BY <3>1, <2>1, <2>2, <1>1, <1>3 DEF Reply
  <2>3. CASE ~value.broken /\ -i < size
    <3>1. size + i + 1 \in 1 .. size
      BY <2>3, <1>1, <1>2
    <3>2. m.locs[size + i + 1].item = size + i + 1
      <4>1. DOMAIN m.locs = 1 .. size /\ \A k \in DOMAIN m.locs : m.locs[k] = Location(k)
        <5>1. m.locs \in Seq(Locations) /\ Len(m.locs) = size
          BY <1>3 DEF KeepsPrefix
        <5>2. \A k \in DOMAIN m.locs : m.locs[k] = Location(k)
          BY <1>3 DEF KeepsPrefix
        <5> HIDE DEF m
        <5>3. DOMAIN m.locs = 1 .. size
          BY <5>1
        <5> QED
          BY <5>2, <5>3
      <4>2. \A k \in 1 .. size : Location(k).item = k
        BY ContainerFacts
      <4> QED
        BY <3>1, <4>1, <4>2
    <3>3. a = Value(size + i + 1)
      BY <3>2, <2>3, <1>3
    <3>4. ByIndex(value, i) = Value(size + i + 1)
      BY <2>3, <1>1, <1>2 DEF ByIndex
    <3> QED
      BY <3>3, <3>4, <2>1, <2>3, <1>1, <1>3 DEF Reply
  <2>4. CASE ~value.broken /\ -i >= size
    <3>1. a = Thrown
      BY <2>4, <1>2, <1>3
    <3>2. i # -size => ByIndex(value, i) = Thrown
      BY <2>4, <1>1, <1>2 DEF ByIndex
    <3>3. Thrown \in Answers(value, r)
      BY <3>2, <2>1
    <3> QED
      BY <3>1, <3>3, <1>1 DEF Reply
  <2> QED
    BY <2>2, <2>3, <2>4, <1>2
<1> QED
  BY <1>1, <1>4, <1>5, <1>6 DEF Ask, Reply

LEMMA ResetStep ==
  ASSUME IInv, NEW c \in Containers, ResetValue(c)
  PROVE  IInv' /\ Reset(c)
<1>1. value' \in Containers /\ locs' = <<>>
  BY DEF ResetValue
<1>2. Len(value'.items) \in Nat
  BY <1>1, LookupAssumption
<1> QED
  BY <1>1, <1>2 DEF IInv, LocationsArePrefix, ResetValue, Reset

LEMMA InvInit == StateInit => IInv
<1> SUFFICES ASSUME StateInit PROVE IInv
  OBVIOUS
<1>1. value \in Containers /\ locs = <<>>
  BY DEF StateInit, Init
<1>2. Len(value.items) \in Nat
  BY <1>1, LookupAssumption
<1> QED
  BY <1>1, <1>2 DEF IInv, LocationsArePrefix

LEMMA InvStep ==
  ASSUME IInv, StateNext
  PROVE  IInv' /\ Next
<1>1. CASE \E name \in Names : Member(name) \/ At(name) \/ IndexOf(name) \/ ContainsName(name)
  BY <1>1, NamedStep DEF Next
<1>2. CASE Size
  BY <1>2, SizeStep DEF Next
<1>3. CASE \E i \in Indexes : ElementFromFront(i) \/ ElementFromBack(i)
  BY <1>3, FrontStep, BackStep DEF Next
<1>4. CASE \E c \in Containers : ResetValue(c)
  BY <1>4, ResetStep DEF Next
<1> QED
  BY <1>1, <1>2, <1>3, <1>4 DEF StateNext

LEMMA InvStutters ==
  ASSUME IInv, UNCHANGED vars
  PROVE  IInv'
BY DEF IInv, LocationsArePrefix, Location, vars

LEMMA InvHolds == StateSpec => []IInv
<1>1. IInv /\ [StateNext]_vars => IInv'
  BY InvStep, InvStutters
<1> QED
  BY InvInit, <1>1, PTL DEF StateSpec

LEMMA AnswersTyped ==
  ASSUME IInv, NEW r \in Requests
  PROVE  Answers(value, r) \subseteq Results
<1> DEFINE size == Len(value.items)
<1>1. size \in Nat /\ DOMAIN value.items = 1 .. size
  BY ContainerFacts
<1>2. ASSUME NEW k \in 1 .. size PROVE Value(k) \in Results
  BY <1>1 DEF Results
<1>3. ASSUME NEW n \in 0 .. size PROVE Position(n) \in Results
  BY <1>1 DEF Results
<1>4. Truth(TRUE) \in Results /\ Truth(FALSE) \in Results
  BY DEF Results
<1>5. Empty \in Results /\ Thrown \in Results
  BY DEF Results
<1>6. CASE r \in [op : Keyed, key : Names]
  <2> DEFINE found == Matching(value, r.key)
  <2>1. r.op \in Keyed /\ r.key \in Names
    BY <1>6
  <2>2. found \in SUBSET Nat /\ found \subseteq 1 .. size
    BY <1>1 DEF Matching
  <2>3. CASE found # {}
    <3>1. Least(found) \in 1 .. size /\ Least(found) - 1 \in 0 .. size
      BY <2>2, <2>3, <1>1, LeastIsLeast
    <3>2. FoundAt(r.op, Least(found)) \in Results
      BY <2>1, <3>1, <1>2, <1>3, <1>4 DEF FoundAt
    <3>3. ByName(value, r.op, r.key) \in Results
      BY <2>3, <3>2, ByNameIs
    <3> QED
      BY <3>3, <2>1, <1>5 DEF Answers
  <2>4. CASE found = {}
    <3>1. size \in 0 .. size
      BY <1>1
    <3>2. NotFound(r.op, size) \in Results
      BY <2>1, <3>1, <1>3, <1>4, <1>5 DEF NotFound
    <3>3. ByName(value, r.op, r.key) \in Results
      BY <2>4, <3>2, <1>5, ByNameIs
    <3> QED
      BY <3>3, <2>1, <1>5 DEF Answers
  <2> QED
    BY <2>3, <2>4
<1>7. CASE r \in [op : {"size"}]
  <2>1. Position(size) \in Results
    BY <1>1, <1>3
  <2> QED
    BY <1>7, <1>5, <2>1 DEF Answers
<1>8. CASE r \in [op : {"element"}, key : Indexes]
  <2>1. r.op = "element" /\ r.key \in Int
    BY <1>8, LookupAssumption
  <2>2. ByIndex(value, r.key) \in Results
    <3> DEFINE i == r.key
    <3>1. CASE i >= 0 /\ i < size
      <4>1. ByIndex(value, i) = Value(i + 1) /\ i + 1 \in 1 .. size
        BY <3>1, <2>1, <1>1 DEF ByIndex
      <4> QED
        BY <4>1, <1>2
    <3>2. CASE i < 0 /\ ~value.broken /\ -i <= size
      <4>1. ByIndex(value, i) = Value(size + i + 1) /\ size + i + 1 \in 1 .. size
        BY <3>2, <2>1, <1>1 DEF ByIndex
      <4> QED
        BY <4>1, <1>2
    <3>3. CASE i >= size \/ (i < 0 /\ (value.broken \/ -i > size))
      <4>1. ByIndex(value, i) = Thrown
        BY <3>3, <2>1, <1>1 DEF ByIndex
      <4> QED
        BY <4>1, <1>5
    <3> QED
      BY <3>1, <3>2, <3>3, <2>1, <1>1
  <2> QED
    BY <2>1, <2>2, <1>5 DEF Answers
<1> QED
  BY <1>6, <1>7, <1>8 DEF Requests

-----------------------------------------------------------------------------
(* Theorems.                                                               *)

(***************************************************************************)
(* The cached locations (m_locs) are always those of the value's first     *)
(* items, for every set of names, hash function and container.             *)
(***************************************************************************)
THEOREM PrefixCorrect == StateSpec => []LocationsArePrefix
<1>1. IInv => LocationsArePrefix
  BY DEF IInv
<1> QED
  BY InvHolds, <1>1, PTL

(***************************************************************************)
(* No answer depends on what was asked before: basic_stateful_json_value   *)
(* implements ValueLookup.                                                 *)
(***************************************************************************)
THEOREM LookupPromised == StateSpec => Promised
<1>1. StateInit => Init
  BY DEF StateInit
<1>2. IInv /\ [StateNext]_vars => [Next]_<<value, request, answer>>
  BY InvStep DEF vars
<1> QED
  BY InvHolds, <1>1, <1>2, PTL DEF StateSpec, Promised, Spec

(***************************************************************************)
(* Type correctness: a position is at most the size, and a value is that   *)
(* of an item that exists, after every request and reset.                  *)
(***************************************************************************)
THEOREM StateTypeCorrect == StateSpec => []StateTypeOK
<1>1. StateInit => StateTypeOK
  BY InvInit DEF StateInit, Init, StateTypeOK, Results, IInv
<1>2. ASSUME IInv, IInv', StateTypeOK, Next
      PROVE  StateTypeOK'
  <2>1. value' \in Containers /\ locs' \in Seq(Locations)
    BY <1>2 DEF IInv
  <2>2. CASE \E r \in Requests : Ask(r)
    <3>1. PICK r \in Requests : Ask(r)
      BY <2>2
    <3>2. answer' \in Results /\ value' = value /\ request' = r
      BY <3>1, <1>2, AnswersTyped DEF Ask
    <3>3. Results' = Results
      BY <3>2 DEF Results
    <3> QED
      BY <2>1, <3>2, <3>3 DEF StateTypeOK
  <2>3. CASE \E c \in Containers : Reset(c)
    <3>1. request' = None /\ answer' = Empty
      BY <2>3 DEF Reset
    <3>2. answer' \in Results'
      BY <3>1 DEF Results
    <3> QED
      BY <2>1, <3>1, <3>2 DEF StateTypeOK
  <2> QED
    BY <2>2, <2>3, <1>2 DEF Next
<1>3. ASSUME IInv, StateTypeOK, [StateNext]_vars
      PROVE  StateTypeOK'
  <2>1. CASE StateNext
    BY <2>1, <1>2, <1>3, InvStep
  <2>2. CASE UNCHANGED vars
    BY <2>2, <1>3 DEF StateTypeOK, Results, vars
  <2> QED
    BY <2>1, <2>2, <1>3
<1> QED
  BY InvHolds, <1>1, <1>3, PTL DEF StateSpec
=============================================================================
