--------------------------- MODULE MCClassMembers ---------------------------
(***************************************************************************)
(* Instances of ClassMembers for TLC: every document up to a length over   *)
(* the given names, and every mapping.                                     *)
(***************************************************************************)
EXTENDS ClassMembers, SequencesExt

\* Every object of up to n members, repeated names and nulls included.
Objects(n) == BoundedSeq([name : 1 .. NameCount, null : BOOLEAN], n)

AllObjects4 == Objects(4)
AllObjects3 == Objects(3)

AllMappings == [nullable : SUBSET (1 .. MemberCount), exact : BOOLEAN]

\* The enclosing object goes on with a member that has the name of a mapped
\* member of the inner one.
OneOuter == {<<>>, <<[name |-> 1, null |-> FALSE]>>, <<[name |-> 2, null |-> FALSE]>>}

\* One of the mapped names has a hash of its own.
PartlyCollidingHash == <<1, 1, 2, 1>>

DistinctNames(s) == \A i, j \in DOMAIN s : s[i].name = s[j].name => i = j

\* Objects as a generator writes them: distinct names, no nulls.
PlainObjects ==
  {s \in AllObjects4 : DistinctNames(s) /\ \A i \in DOMAIN s : ~s[i].null}

\* ... in which no mapped member is left out.
CompleteObjects ==
  {s \in PlainObjects : \A m \in 1 .. MemberCount : \E i \in DOMAIN s : s[i].name = m}

\* Checked, every object of up to three members, and those of four in any order.
\* Unchecked, complete ones.
CheckedObjects == AllObjects3 \cup PlainObjects
CheckedAndUnchecked == [u \in BOOLEAN |-> IF u THEN CompleteObjects ELSE CheckedObjects]

\* Objects with repeated names, but no nulls, that are checked.
ObjectsWithoutNulls ==
  [u \in BOOLEAN |-> IF u THEN {} ELSE {s \in AllObjects3 : \A i \in DOMAIN s : ~s[i].null}]
=============================================================================
